---- MODULE Spec2Model ----
(***************************************************************************)
(* Model of the vibe-ragnar indexer: the code graph (GraphStorage), the    *)
(* scoped symbol table and graph builder (GraphBuilder), the embedding     *)
(* sync engine (EmbeddingSync) over the vector store, and the event        *)
(* pipeline (DebouncedFileHandler + handle_changes).                       *)
(*                                                                         *)
(* Ids are modelled as the tuple of their colon-separated parts:           *)
(*   "repo:a.py:f"  is <<"repo", "a.py", "f">>,  "repo:a.py" is            *)
(*   <<"repo", "a.py">>  and "external:g" is <<"external", "g">>.          *)
(* File paths of the model are flat (no directory part), so Path.name of   *)
(* a path is the path itself.                                              *)
(***************************************************************************)
EXTENDS Integers, Sequences, FiniteSets, TLC

(***************************************************************************)
(* Bounds                                                                  *)
(***************************************************************************)
\* number of file-system events and tool calls of one behaviour
MaxOps == 2

\* the file-system changes followed through the callbacks of the watcher
MaxChanges == 1

(***************************************************************************)
(* Generic helpers for Python dicts and lists                              *)
(***************************************************************************)
\* d[k] = v on a dict modelled as a function over its key set
Put(d, k, v) == [x \in (DOMAIN d) \cup {k} |-> IF x = k THEN v ELSE d[x]]

\* d.pop(k, None)
Pop(d, k) == [x \in (DOMAIN d) \ {k} |-> d[x]]

EmptyDict == [x \in {} |-> x]

\* [x for x in s if x != v]
RECURSIVE Without(_, _)
Without(s, v) ==
    IF s = <<>> THEN <<>>
    ELSE IF Head(s) = v THEN Without(Tail(s), v)
         ELSE <<Head(s)>> \o Without(Tail(s), v)

Range(s) == {s[i] : i \in 1..Len(s)}

\* the elements of s that are in set S, in order
RECURSIVE Filter(_, _)
Filter(s, S) ==
    IF s = <<>> THEN <<>>
    ELSE IF Head(s) \in S THEN <<Head(s)>> \o Filter(Tail(s), S)
         ELSE Filter(Tail(s), S)

(***************************************************************************)
(* Entities (parser/entities.py)                                           *)
(***************************************************************************)
REPO == "repo"

NoPath == ""
NoClass == ""

\* Function.entity_path / CodeEntity.entity_path
EntityPath(type, name, class_name) ==
    IF type = "function" /\ class_name # NoClass
    THEN class_name \o "." \o name
    ELSE name

\* CodeEntity.id / File.id
EntityId(type, file_path, name, class_name) ==
    IF type = "file" THEN <<REPO, file_path>>
    ELSE <<REPO, file_path, EntityPath(type, name, class_name)>>

\* content_hash: sha256 is modelled as an injective tag over the hashed text.
\* Function and TypeDefinition hash their code; Class hashes
\* name:sorted(bases):sorted(decorators) (the model's classes have at most
\* one base and no decorators, so sorting is the identity on them).
ContentHash(type, name, bases, code) ==
    IF type = "class" THEN <<"sha256", name, bases>>
    ELSE IF type = "file" THEN <<"none">>
    ELSE <<"sha256", code>>

\* One entity as a record with every field of the four variants.
Entity(type, file_path, name, class_name, calls, bases, code, language, imports, defines) ==
    [type |-> type,
     id |-> EntityId(type, file_path, name, class_name),
     name |-> name,
     file_path |-> file_path,
     class_name |-> class_name,
     calls |-> calls,
     bases |-> bases,
     language |-> language,
     imports |-> imports,
     defines |-> defines,
     content_hash |-> ContentHash(type, name, bases, code)]

(***************************************************************************)
(* Source files and the parser (parser/treesitter.py, parse_file)          *)
(*                                                                         *)
(* A source text is modelled by what the extractor captures from it: its   *)
(* function definitions (name, enclosing class, called names, code), its   *)
(* class definitions (name, bases), its type definitions and its imports.  *)
(***************************************************************************)
\* a path with no file on disk
Absent ==
    [exists |-> FALSE, readable |-> FALSE, funcs |-> <<>>, classes |-> <<>>,
     types |-> <<>>, imports |-> <<>>]

\* a file that exists and whose read_bytes raises OSError (no permission)
Unreadable ==
    [exists |-> TRUE, readable |-> FALSE, funcs |-> <<>>, classes |-> <<>>,
     types |-> <<>>, imports |-> <<>>]

Paths == {"a.py", "b.py", "m.c", "u.h"}

\* get_language_for_file: extension -> language
LanguageOf(path) ==
    IF path \in {"a.py", "b.py"} THEN "python" ELSE "c"

FuncDef(name, cls, calls, code) ==
    [name |-> name, cls |-> cls, calls |-> calls, code |-> code]

ClassDef(name, bases) == [name |-> name, bases |-> bases]

TypeDef(name, code) == [name |-> name, code |-> code]

Source(funcs, classes, types, imports) ==
    [exists |-> TRUE, readable |-> TRUE, funcs |-> funcs, classes |-> classes,
     types |-> types, imports |-> imports]

\* def g(): pass
SrcDefG == Source(<<FuncDef("g", NoClass, <<>>, "def g(): pass")>>, <<>>, <<>>, <<>>)

\* def g(): return 1          (the body of g edited)
SrcDefG2 == Source(<<FuncDef("g", NoClass, <<>>, "def g(): return 1")>>, <<>>, <<>>, <<>>)

\* class C(B):
\*     def m(self): g()
SrcMethod ==
    Source(<<FuncDef("m", "C", <<"g">>, "def m(self): g()")>>,
           <<ClassDef("C", <<"B">>)>>, <<>>, <<>>)

\* @overload
\* def g(x: int): ...
\* def g(x): return x           (two definitions of one name in one file)
SrcOverload ==
    Source(<<FuncDef("g", NoClass, <<>>, "def g(x: int): ..."),
             FuncDef("g", NoClass, <<>>, "def g(x): return x")>>, <<>>, <<>>, <<>>)

\* import b
\* def f(): g()
SrcImport == Source(<<FuncDef("f", NoClass, <<"g">>, "def f(): g()")>>, <<>>, <<>>, <<"b">>)

\* #include "u.h"
\* int main() { helper(); }
SrcInclude ==
    Source(<<FuncDef("main", NoClass, <<"helper">>, "int main() { helper(); }")>>,
           <<>>, <<>>, <<"u.h">>)

\* void helper() {}
SrcHelper == Source(<<FuncDef("helper", NoClass, <<>>, "void helper() {}")>>, <<>>, <<>>, <<>>)

\* the paths files are moved between in the model
Movable == {"a.py", "b.py"}

\* the texts an editor writes to each path in the model
SourcesFor(path) ==
    CASE path = "a.py" -> {SrcImport, SrcMethod}
      [] path = "b.py" -> {SrcDefG, SrcDefG2, SrcOverload}
      [] path = "m.c" -> {SrcInclude}
      [] path = "u.h" -> {SrcHelper}

RECURSIVE MapFuncs(_, _)
MapFuncs(defs, path) ==
    IF defs = <<>> THEN <<>>
    ELSE LET d == Head(defs) IN
         <<Entity("function", path, d.name, d.cls, d.calls, <<>>, d.code,
                  LanguageOf(path), <<>>, <<>>)>> \o MapFuncs(Tail(defs), path)

RECURSIVE MapClasses(_, _)
MapClasses(defs, path) ==
    IF defs = <<>> THEN <<>>
    ELSE LET d == Head(defs) IN
         <<Entity("class", path, d.name, NoClass, <<>>, d.bases, "",
                  LanguageOf(path), <<>>, <<>>)>> \o MapClasses(Tail(defs), path)

RECURSIVE MapTypes(_, _)
MapTypes(defs, path) ==
    IF defs = <<>> THEN <<>>
    ELSE LET d == Head(defs) IN
         <<Entity("type", path, d.name, NoClass, <<>>, <<>>, d.code,
                  LanguageOf(path), <<>>, <<>>)>> \o MapTypes(Tail(defs), path)

RECURSIVE Ids(_)
Ids(entities) ==
    IF entities = <<>> THEN <<>>
    ELSE <<Head(entities).id>> \o Ids(Tail(entities))

\* TreeSitterParser.parse_file: functions, then classes, then types (only
\* for typescript, go and rust), then the File entity; [] when the file does
\* not exist or cannot be read.
parse_file(path, content) ==
    IF ~content.exists \/ ~content.readable THEN <<>>
    ELSE LET functions == MapFuncs(content.funcs, path)
             classes == MapClasses(content.classes, path)
             types == IF LanguageOf(path) \in {"typescript", "go", "rust"}
                      THEN MapTypes(content.types, path) ELSE <<>>
             entities == functions \o classes \o types
         IN  entities \o
             <<Entity("file", path, path, NoClass, <<>>, <<>>, "",
                      LanguageOf(path), content.imports, Ids(entities))>>

RECURSIVE ParseAll(_, _)
\* TreeSitterParser.parse_directory over the files of `paths` (a sequence)
ParseAll(paths, fs) ==
    IF paths = <<>> THEN <<>>
    ELSE parse_file(Head(paths), fs[Head(paths)]) \o ParseAll(Tail(paths), fs)


(***************************************************************************)
(* GraphStorage (graph/storage.py): a networkx DiGraph.  `order` is the    *)
(* node dict's insertion order, `attr` the node attributes, `edges` the    *)
(* set of (from, to, type); a DiGraph holds one edge per ordered pair.     *)
(***************************************************************************)
EdgeTypes == {"imports", "defines", "calls", "inherits", "uses", "contains"}

EmptyGraph == [order |-> <<>>, attr |-> EmptyDict, edges |-> {}]

HasNode(g, id) == id \in DOMAIN g.attr

ExternalId(name) == <<"external", name>>

NodeOf(e) ==
    [type |-> e.type, name |-> e.name, file_path |-> e.file_path,
     class_name |-> e.class_name,
     defines |-> e.defines, content_hash |-> e.content_hash]

ExternalNode(name) ==
    [type |-> "external", name |-> name, file_path |-> NoPath,
     class_name |-> NoClass,
     defines |-> <<>>, content_hash |-> <<"none">>]

\* DiGraph.add_node: a new id is appended, an existing one keeps its place
\* and gets the new attributes
AddNode(g, id, node) ==
    [g EXCEPT !.order = IF HasNode(g, id) THEN @ ELSE Append(@, id),
              !.attr = Put(@, id, node)]

\* DiGraph.remove_node: the node and every edge incident to it
RemoveNode(g, id) ==
    [order |-> Without(g.order, id),
     attr |-> Pop(g.attr, id),
     edges |-> {e \in g.edges : e[1] # id /\ e[2] # id}]

\* DiGraph.add_edge(u, v, type=t) between two existing nodes: the edge
\* (u, v) is created or its type attribute overwritten
SetEdge(g, u, v, t) ==
    [g EXCEPT !.edges = {e \in @ : ~(e[1] = u /\ e[2] = v)} \cup {<<u, v, t>>}]

\* GraphStorage.add_entity
add_entity(g, e) == AddNode(g, e.id, NodeOf(e))

\* GraphStorage.remove_entity
remove_entity(g, id) == IF HasNode(g, id) THEN RemoveNode(g, id) ELSE g

\* add_edge without the check that both nodes exist
add_edge_unchecked(g, from_id, to_id, t) == SetEdge(g, from_id, to_id, t)

\* GraphStorage.add_edge
add_edge(g, from_id, to_id, t) ==
    IF HasNode(g, from_id) /\ HasNode(g, to_id)
    THEN SetEdge(g, from_id, to_id, t)
    ELSE g

RECURSIVE FirstNamed(_, _, _)
FirstNamed(order, attr, name) ==
    IF order = <<>> THEN <<>>
    ELSE IF attr[Head(order)].name = name THEN <<Head(order)>>
         ELSE FirstNamed(Tail(order), attr, name)

\* GraphStorage._find_by_name: <<id>> of the first node of that name, <<>>
\* for None
find_by_name(g, name) == FirstNamed(g.order, g.attr, name)

\* GraphStorage.add_edge_by_name
add_edge_by_name(g, from_id, to_name, t, create_if_missing) ==
    IF ~HasNode(g, from_id) THEN g
    ELSE LET found == find_by_name(g, to_name) IN
         IF found # <<>> THEN SetEdge(g, from_id, found[1], t)
         ELSE IF create_if_missing
              THEN SetEdge(AddNode(g, ExternalId(to_name), ExternalNode(to_name)),
                           from_id, ExternalId(to_name), t)
              ELSE g

\* GraphStorage.get_predecessors(id): the (source, type) of the in-edges
get_predecessors(g, id) ==
    IF ~HasNode(g, id) THEN {}
    ELSE {<<e[1], e[3]>> : e \in {x \in g.edges : x[2] = id}}

\* GraphStorage.get_successors(id, edge_type)
get_successors(g, id, t) ==
    IF ~HasNode(g, id) THEN {}
    ELSE {e[2] : e \in {x \in g.edges : x[1] = id /\ x[3] = t}}

RECURSIVE InFile(_, _, _)
InFile(order, attr, file_path) ==
    IF order = <<>> THEN <<>>
    ELSE IF attr[Head(order)].file_path = file_path
         THEN <<Head(order)>> \o InFile(Tail(order), attr, file_path)
         ELSE InFile(Tail(order), attr, file_path)

\* GraphStorage.get_entities_by_file
get_entities_by_file(g, file_path) == InFile(g.order, g.attr, file_path)

RECURSIVE RemoveNodes(_, _)
RemoveNodes(g, ids) ==
    IF ids = <<>> THEN g
    ELSE RemoveNodes(RemoveNode(g, Head(ids)), Tail(ids))

\* GraphStorage.remove_file: the graph afterwards (the removed ids are
\* get_entities_by_file of the graph before)
storage_remove_file(g, file_path) ==
    RemoveNodes(g, get_entities_by_file(g, file_path))


(***************************************************************************)
(* ScopedSymbolTable (graph/builder.py)                                    *)
(***************************************************************************)
EmptySymbols ==
    [global_scope |-> EmptyDict, file_scopes |-> EmptyDict,
     qualified_names |-> EmptyDict, entity_to_names |-> EmptyDict]

NoQualified == ""

\* ScopedSymbolTable.register
register(st, entity_id, name, file_path, qualified_name, is_exported) ==
    LET scope0 == IF file_path \in DOMAIN st.file_scopes
                  THEN st.file_scopes[file_path] ELSE EmptyDict
        scope1 == Put(scope0, name, entity_id)
        scope2 == IF qualified_name # NoQualified
                  THEN Put(scope1, qualified_name, entity_id) ELSE scope1
        quals == IF qualified_name # NoQualified
                 THEN Put(st.qualified_names, qualified_name, entity_id)
                 ELSE st.qualified_names
        glob1 == IF is_exported THEN Put(st.global_scope, name, entity_id)
                 ELSE st.global_scope
        glob2 == IF is_exported /\ qualified_name # NoQualified
                 THEN Put(glob1, qualified_name, entity_id) ELSE glob1
        registered_names ==
            <<(<<"file", name>>)>>
            \o (IF qualified_name # NoQualified
                THEN <<(<<"qualified", qualified_name>>), (<<"file", qualified_name>>)>>
                ELSE <<>>)
            \o (IF is_exported THEN <<(<<"global", name>>)>> ELSE <<>>)
            \o (IF is_exported /\ qualified_name # NoQualified
                THEN <<(<<"global", qualified_name>>)>> ELSE <<>>)
    IN  [global_scope |-> glob2,
         file_scopes |-> Put(st.file_scopes, file_path, scope2),
         qualified_names |-> quals,
         entity_to_names |-> Put(st.entity_to_names, entity_id, registered_names)]

\* a resolve that looks in the file-local scope before the qualified names
resolve_local_first(st, name, context_file) ==
    IF context_file # NoPath /\ context_file \in DOMAIN st.file_scopes
       /\ name \in DOMAIN st.file_scopes[context_file]
    THEN <<st.file_scopes[context_file][name]>>
    ELSE IF name \in DOMAIN st.qualified_names THEN <<st.qualified_names[name]>>
         ELSE IF name \in DOMAIN st.global_scope THEN <<st.global_scope[name]>>
              ELSE <<>>

\* ScopedSymbolTable.resolve: <<id>> or <<>> for None
resolve(st, name, context_file) ==
    IF name \in DOMAIN st.qualified_names THEN <<st.qualified_names[name]>>
    ELSE IF context_file # NoPath /\ context_file \in DOMAIN st.file_scopes
            /\ name \in DOMAIN st.file_scopes[context_file]
         THEN <<st.file_scopes[context_file][name]>>
         ELSE IF name \in DOMAIN st.global_scope THEN <<st.global_scope[name]>>
              ELSE <<>>

\* one (scope_type, name) pair of the loop of unregister
UnregisterName(st, scope_type, name) ==
    CASE scope_type = "global" ->
            [st EXCEPT !.global_scope = Pop(@, name)]
      [] scope_type = "qualified" ->
            [st EXCEPT !.qualified_names = Pop(@, name)]
      [] scope_type = "file" ->
            [st EXCEPT !.file_scopes =
                [f \in DOMAIN @ |-> Pop(@[f], name)]]
      [] OTHER -> st

RECURSIVE UnregisterNames(_, _)
UnregisterNames(st, names) ==
    IF names = <<>> THEN st
    ELSE UnregisterNames(UnregisterName(st, Head(names)[1], Head(names)[2]), Tail(names))

\* ScopedSymbolTable.unregister
unregister(st, entity_id) ==
    IF entity_id \notin DOMAIN st.entity_to_names THEN st
    ELSE LET st1 == UnregisterNames(st, st.entity_to_names[entity_id])
         IN  [st1 EXCEPT !.entity_to_names = Pop(@, entity_id)]

\* a removal that leaves the symbol table as it is
UnregisterNone(st, ids) == st

RECURSIVE UnregisterAll(_, _)
\* for entity_id in removed: self._symbol_table.unregister(entity_id)
UnregisterAll(st, ids) ==
    IF ids = <<>> THEN st
    ELSE UnregisterAll(unregister(st, Head(ids)), Tail(ids))


(***************************************************************************)
(* ImportResolver (graph/import_resolver.py).  The import strings of the   *)
(* model are "b" (Python) and "u.h" (C): no leading dot, no inner dot in   *)
(* the Python module name, no directory part.                              *)
(***************************************************************************)
\* stdlib_modules of PythonImportResolver._resolve_absolute
StdlibModules ==
    {"os", "sys", "re", "json", "logging", "pathlib", "typing", "collections",
     "itertools", "functools", "dataclasses", "abc", "hashlib", "datetime", "time",
     "unittest", "pytest", "asyncio", "enum", "copy", "io", "tempfile", "shutil",
     "glob", "subprocess"}

\* the import strings for which import_name.endswith(".h") holds
HeaderNames == {"u.h"}

\* BaseImportResolver._find_file: <<path>> of the first candidate that is a
\* known file, <<>> for None
RECURSIVE find_file(_, _)
find_file(possible_paths, known_files) ==
    IF possible_paths = <<>> THEN <<>>
    ELSE IF Head(possible_paths) \in known_files THEN <<Head(possible_paths)>>
         ELSE find_file(Tail(possible_paths), known_files)

\* PythonImportResolver._resolve_absolute: the resolved path or <<>>
PythonResolve(import_name, known_files) ==
    IF import_name \in StdlibModules THEN <<>>
    ELSE find_file(<<import_name \o ".py",
                     import_name \o "/__init__.py",
                     "src/" \o import_name \o ".py",
                     "src/" \o import_name \o "/__init__.py">>, known_files)

\* CImportResolver.resolve: the resolved path or <<>>
CResolve(import_name, known_files) ==
    IF import_name \notin HeaderNames THEN <<>>
    ELSE find_file(<<import_name, import_name,
                     "include/" \o import_name,
                     "src/" \o import_name>>, known_files)

\* ImportResolver.resolve: the resolved path, or <<>> when the import is
\* external.  Before the first set_known_files there is no resolver for any
\* language and every import is external.
ImportResolve(import_name, language, known_files, resolvers) ==
    IF ~resolvers THEN <<>>
    ELSE IF language = "python" THEN PythonResolve(import_name, known_files)
    ELSE IF language = "c" THEN CResolve(import_name, known_files)
    ELSE <<>>

(***************************************************************************)
(* GraphBuilder (graph/builder.py).  A builder state is                    *)
(*   [g: the storage, st: the symbol table,                                *)
(*    known_files, resolvers: the import resolver's state]                 *)
(***************************************************************************)
EmptyBuilder ==
    [g |-> EmptyGraph, st |-> EmptySymbols, known_files |-> {}, resolvers |-> FALSE]

RECURSIVE RedirectEdges(_, _, _)
\* for source_id, edge_data in incoming: add_edge(source_id, real_id, type)
RedirectEdges(g, incoming, real_id) ==
    IF incoming = {} THEN g
    ELSE LET p == CHOOSE x \in incoming : TRUE IN
         RedirectEdges(add_edge(g, p[1], real_id, p[2]), incoming \ {p}, real_id)

\* a registration that leaves the placeholder and its edges in place
resolve_external_reference_skip(g, name, real_id) == g

\* GraphBuilder._resolve_external_reference
resolve_external_reference(g, name, real_id) ==
    IF ~HasNode(g, ExternalId(name)) THEN g
    ELSE remove_entity(RedirectEdges(g, get_predecessors(g, ExternalId(name)), real_id),
                       ExternalId(name))

\* GraphBuilder._register_symbol
register_symbol(b, e) ==
    IF e.type = "function" THEN
        LET qualified_name == IF e.class_name # NoClass
                              THEN e.class_name \o "." \o e.name ELSE NoQualified
            g1 == resolve_external_reference(b.g, e.name, e.id)
            g2 == IF qualified_name # NoQualified
                  THEN resolve_external_reference(g1, qualified_name, e.id) ELSE g1
        IN  [b EXCEPT !.st = register(@, e.id, e.name, e.file_path, qualified_name, TRUE),
                      !.g = g2]
    ELSE IF e.type \in {"class", "type"} THEN
        [b EXCEPT !.st = register(@, e.id, e.name, e.file_path, NoQualified, TRUE),
                  !.g = resolve_external_reference(@, e.name, e.id)]
    ELSE b

\* GraphBuilder._resolve_symbol
resolve_symbol(b, name, context_file) == resolve(b.st, name, context_file)

RECURSIVE FirstFileAt(_, _, _)
FirstFileAt(order, attr, resolved_path) ==
    IF order = <<>> THEN <<>>
    ELSE IF attr[Head(order)].type = "file" /\ attr[Head(order)].file_path = resolved_path
         THEN <<Head(order)>>
         ELSE FirstFileAt(Tail(order), attr, resolved_path)

\* GraphBuilder._resolve_import: <<file id>> or <<>>.  (file_path.endswith
\* ("/" + resolved_path) never holds for the flat paths of the model.)
resolve_import(b, import_name, context_file, language) ==
    LET resolved == ImportResolve(import_name, language, b.known_files, b.resolvers) IN
    IF resolved = <<>> THEN <<>>
    ELSE FirstFileAt(b.g.order, b.g.attr, resolved[1])

RECURSIVE NameEdges(_, _, _, _)
\* the loop shared by CALLS and INHERITS edges: resolve each name, add the
\* edge to the resolved entity or to a node found or created by name
NameEdges(b, e, names, t) ==
    IF names = <<>> THEN b
    ELSE LET target == resolve_symbol(b, Head(names), e.file_path)
             g1 == IF target # <<>> THEN add_edge(b.g, e.id, target[1], t)
                   ELSE add_edge_by_name(b.g, e.id, Head(names), t, TRUE)
         IN  NameEdges([b EXCEPT !.g = g1], e, Tail(names), t)

\* GraphBuilder._build_function_edges
build_function_edges(b, func) ==
    LET b1 == NameEdges(b, func, func.calls, "calls") IN
    IF func.class_name # NoClass
    THEN LET class_id == resolve_symbol(b1, func.class_name, func.file_path) IN
         IF class_id # <<>>
         THEN [b1 EXCEPT !.g = add_edge(@, class_id[1], func.id, "contains")]
         ELSE b1
    ELSE b1

\* GraphBuilder._build_class_edges
build_class_edges(b, cls) == NameEdges(b, cls, cls.bases, "inherits")

RECURSIVE DefinesEdges(_, _, _)
DefinesEdges(g, file, defines) ==
    IF defines = <<>> THEN g
    ELSE DefinesEdges(IF HasNode(g, Head(defines))
                      THEN add_edge(g, file.id, Head(defines), "defines") ELSE g,
                      file, Tail(defines))

RECURSIVE ImportEdges(_, _, _)
ImportEdges(b, file, imports) ==
    IF imports = <<>> THEN b
    ELSE LET target == resolve_import(b, Head(imports), file.file_path, file.language)
             g1 == IF target # <<>> THEN add_edge(b.g, file.id, target[1], "imports")
                   ELSE add_edge_by_name(b.g, file.id, Head(imports), "imports", TRUE)
         IN  ImportEdges([b EXCEPT !.g = g1], file, Tail(imports))

\* GraphBuilder._build_file_edges
build_file_edges(b, file) ==
    ImportEdges([b EXCEPT !.g = DefinesEdges(@, file, file.defines)], file, file.imports)

\* GraphBuilder._build_edges
build_edges(b, e) ==
    IF e.type = "function" THEN build_function_edges(b, e)
    ELSE IF e.type = "class" THEN build_class_edges(b, e)
    ELSE IF e.type = "file" THEN build_file_edges(b, e)
    ELSE b

RECURSIVE AddAll(_, _)
\* for entity in entities: add_entity(entity); _register_symbol(entity)
AddAll(b, entities) ==
    IF entities = <<>> THEN b
    ELSE AddAll(register_symbol([b EXCEPT !.g = add_entity(@, Head(entities))],
                                Head(entities)),
                Tail(entities))

RECURSIVE EdgesAll(_, _)
\* for entity in entities: _build_edges(entity)
EdgesAll(b, entities) ==
    IF entities = <<>> THEN b
    ELSE EdgesAll(build_edges(b, Head(entities)), Tail(entities))

RECURSIVE FilePaths(_)
FilePaths(entities) ==
    IF entities = <<>> THEN {}
    ELSE (IF Head(entities).type = "file" THEN {Head(entities).file_path} ELSE {})
         \cup FilePaths(Tail(entities))

\* GraphBuilder.build_from_entities
build_from_entities(b, entities) ==
    EdgesAll(AddAll([b EXCEPT !.known_files = FilePaths(entities), !.resolvers = TRUE],
                    entities),
             entities)

\* the part of update_file and remove_file that removes the file: the
\* storage's remove_file, then unregister for every removed id
RemoveFileNodes(b, file_path) ==
    LET removed == get_entities_by_file(b.g, file_path) IN
    [b EXCEPT !.g = storage_remove_file(@, file_path),
              !.st = UnregisterAll(@, removed)]

\* GraphBuilder.update_file
update_file(b, file_path, entities) ==
    EdgesAll(AddAll(RemoveFileNodes(b, file_path), entities), entities)

\* a remove_file that leaves the graph and the symbol table as they are
remove_file_keep(b, file_path) == b

\* GraphBuilder.remove_file
remove_file(b, file_path) == RemoveFileNodes(b, file_path)

\* GraphBuilder.clear
builder_clear(b) == [b EXCEPT !.g = EmptyGraph, !.st = EmptySymbols]


(***************************************************************************)
(* The vector store (embeddings/storage.py): one document per _id with     *)
(* the metadata the sync engine reads back.                                *)
(***************************************************************************)
EmptyStore == EmptyDict

\* the document bulk_upsert writes for one entity (_entity_to_metadata)
Document(e) ==
    [repo |-> REPO, file_path |-> e.file_path, content_hash |-> e.content_hash]

\* a get_content_hashes that finds no record
get_content_hashes_none(store) == EmptyDict

\* get_content_hashes(repo): {id: content_hash}
get_content_hashes(store) ==
    [id \in {i \in DOMAIN store : store[i].repo = REPO} |-> store[id].content_hash]

\* delete_embedding
delete_embedding(store, id) == Pop(store, id)

\* delete_by_file(repo, file_path)
delete_by_file(store, file_path) ==
    [id \in {i \in DOMAIN store :
                ~(store[i].repo = REPO /\ store[i].file_path = file_path)} |-> store[id]]

\* delete_by_repo(repo)
delete_by_repo(store) ==
    [id \in {i \in DOMAIN store : store[i].repo # REPO} |-> store[id]]

RECURSIVE bulk_upsert(_, _)
\* bulk_upsert: one UpdateOne(upsert=True) per item, in order
bulk_upsert(store, batch) ==
    IF batch = <<>> THEN store
    ELSE bulk_upsert(Put(store, Head(batch).id, Document(Head(batch))), Tail(batch))

(***************************************************************************)
(* EmbeddingSync (embeddings/sync.py)                                      *)
(***************************************************************************)
BATCH_SIZE == 32

EmptyResult ==
    [added |-> 0, updated |-> 0, deleted |-> 0, skipped |-> 0, errors |-> <<>>]

\* EmbeddingSync._is_embeddable
is_embeddable(e) == e.type \in {"function", "class", "type"}

RECURSIVE Embeddable(_)
Embeddable(entities) ==
    IF entities = <<>> THEN <<>>
    ELSE (IF is_embeddable(Head(entities)) THEN <<Head(entities)>> ELSE <<>>)
         \o Embeddable(Tail(entities))

RECURSIVE JoinColon(_)
JoinColon(parts) ==
    IF parts = <<>> THEN ""
    ELSE IF Len(parts) = 1 THEN parts[1]
    ELSE parts[1] \o ":" \o JoinColon(Tail(parts))

\* a file-of-id that keeps the entity path: everything after the repository
get_file_from_id_whole(id) == JoinColon(Tail(id))

\* EmbeddingSync._get_file_from_id: split on ":", join all but the first and
\* the last part
get_file_from_id(id) ==
    IF Len(id) >= 2
    THEN IF Len(id) > 2 THEN JoinColon(SubSeq(id, 2, Len(id) - 1)) ELSE id[2]
    ELSE ""

RECURSIVE Categorize(_, _, _)
\* the categorisation loop of sync_entities / sync_file over `existing`
\* (id -> hash): the entities to embed and the counts
Categorize(embeddable, existing, acc) ==
    IF embeddable = <<>> THEN acc
    ELSE LET e == Head(embeddable) IN
         Categorize(Tail(embeddable), existing,
            IF e.id \notin DOMAIN existing
            THEN [acc EXCEPT !.to_embed = Append(@, e), !.added = @ + 1]
            ELSE IF existing[e.id] # e.content_hash
            THEN [acc EXCEPT !.to_embed = Append(@, e), !.updated = @ + 1]
            ELSE [acc EXCEPT !.skipped = @ + 1])

EmptyCategories == [to_embed |-> <<>>, added |-> 0, updated |-> 0, skipped |-> 0]

\* the deletion loop, delete_embedding(id) for each id of ids: whatever the
\* order, the store without the records of ids
DeleteAll(store, ids) == [id \in (DOMAIN store) \ ids |-> store[id]]

\* a count that takes every entity of the batch for a new one
CountExistingNone(batch, existing_ids) == 0

RECURSIVE CountExisting(_, _)
\* the number of entities of the batch whose id is in existing_ids
CountExisting(batch, existing_ids) ==
    IF batch = <<>> THEN 0
    ELSE (IF Head(batch).id \in existing_ids THEN 1 ELSE 0)
         + CountExisting(Tail(batch), existing_ids)

RECURSIVE Batches(_, _, _, _, _)
\* the batch loop: batch k (from 0) is to_embed[k*BATCH_SIZE : (k+1)*BATCH_SIZE];
\* a batch of `failing` raises in _process_batch before anything is stored.
\* adjust is TRUE in sync_entities (the counts of a failed batch are taken
\* back) and FALSE in sync_file.
Batches(st, to_embed, k, failing, adjust) ==
    IF k * BATCH_SIZE >= Len(to_embed) THEN st
    ELSE LET last == IF (k + 1) * BATCH_SIZE < Len(to_embed)
                     THEN (k + 1) * BATCH_SIZE ELSE Len(to_embed)
             batch == SubSeq(to_embed, k * BATCH_SIZE + 1, last)
             st1 == IF k \in failing
                    THEN [st EXCEPT
                            !.errors = @ \o Ids(batch),
                            !.updated = IF adjust
                                        THEN @ - CountExisting(batch, st.existing_ids)
                                        ELSE @,
                            !.added = IF adjust
                                      THEN @ - (Len(batch)
                                                - CountExisting(batch, st.existing_ids))
                                      ELSE @,
                            !.calls = @ \o Ids(batch)]
                    ELSE [st EXCEPT !.store = bulk_upsert(@, batch),
                                    !.calls = @ \o Ids(batch)]
         IN  Batches(st1, to_embed, k + 1, failing, adjust)

\* EmbeddingSync.sync_entities.  The result is
\*   [store: the store afterwards, result: the SyncResult,
\*    calls: the ids handed to the embedding generator, in order]
sync_entities(store, entities, failing) ==
    LET embeddable == Embeddable(entities)
        embeddable_ids == Range(Ids(embeddable))
        existing_hashes == get_content_hashes(store)
        existing_ids == DOMAIN existing_hashes
        cat == Categorize(embeddable, existing_hashes, EmptyCategories)
        parsed_files == {entities[i].file_path : i \in 1..Len(entities)}
        to_delete == {eid \in existing_ids :
                        eid \notin embeddable_ids /\ get_file_from_id(eid) \in parsed_files}
        st0 == [store |-> DeleteAll(store, to_delete),
                added |-> cat.added, updated |-> cat.updated,
                errors |-> <<>>, calls |-> <<>>, existing_ids |-> existing_ids]
        st1 == Batches(st0, cat.to_embed, 0, failing, TRUE)
    IN  [store |-> st1.store,
         result |-> [added |-> st1.added, updated |-> st1.updated,
                     deleted |-> Cardinality(to_delete), skipped |-> cat.skipped,
                     errors |-> st1.errors],
         calls |-> st1.calls]

\* EmbeddingSync.sync_file
sync_file(store, file_path, entities, failing) ==
    LET embeddable == Embeddable(entities)
        existing == get_content_hashes(store)
        existing_in_file ==
            [eid \in {i \in DOMAIN existing : get_file_from_id(i) = file_path}
                |-> existing[eid]]
        cat == Categorize(embeddable, existing_in_file, EmptyCategories)
        current_ids == Range(Ids(embeddable))
        to_delete == (DOMAIN existing_in_file) \ current_ids
        st0 == [store |-> DeleteAll(store, to_delete),
                added |-> cat.added, updated |-> cat.updated,
                errors |-> <<>>, calls |-> <<>>, existing_ids |-> DOMAIN existing_in_file]
        st1 == Batches(st0, cat.to_embed, 0, failing, FALSE)
    IN  [store |-> st1.store,
         result |-> [added |-> st1.added, updated |-> st1.updated,
                     deleted |-> Cardinality(to_delete), skipped |-> cat.skipped,
                     errors |-> st1.errors],
         calls |-> st1.calls]

\* EmbeddingSync.delete_file
delete_file(store, file_path) == delete_by_file(store, file_path)

\* EmbeddingSync.full_reindex
full_reindex(store, entities, failing) ==
    LET deleted == Cardinality({i \in DOMAIN store : store[i].repo = REPO})
        r == sync_entities(delete_by_repo(store), entities, failing)
    IN  [r EXCEPT !.result.deleted = deleted]


(***************************************************************************)
(* State                                                                   *)
(***************************************************************************)
VARIABLES
    fs,        \* the repository on disk: path -> source text or Absent
    pending,   \* DebouncedFileHandler._pending_changes, in insertion order:
               \*   <<path, change_type, origin>>; origin is bookkeeping, the
               \*   source path when the entry was recorded by on_moved
    builder,   \* the GraphBuilder with its storage, symbol table and resolver
    store,     \* the vector store
    phase,     \* context["indexing_phase"]
    scan,      \* the entity list run_initial_indexing has parsed
    synced,    \* bookkeeping: path -> the entity list of that file most
               \*   recently handed to sync_file / sync_entities (<<>> if none
               \*   or if its records were deleted since)
    last,      \* bookkeeping: the last operation on the index, its inputs,
               \*   the graph and store before it and its results
    streamed,  \* the paths streamed through update_file, in order
    ops,       \* number of file-system events and tool calls so far
    th         \* the threads of the server process: the debounce timers, the
               \*   batches being processed, the position of the indexing
               \*   thread inside build_from_entities, the lifespan flags

vars == <<fs, pending, builder, store, phase, scan, synced, last, streamed, ops, th>>

NoOp(op) ==
    [op |-> op, entries |-> <<>>, gbefore |-> EmptyGraph, sbefore |-> EmptyStore,
     from_id |-> <<>>, to_id |-> <<>>,
     name |-> "", context_file |-> NoPath, result |-> <<>>]

\* no timer, no undelivered watchdog event, no batch; indexing_complete
\* False and indexing_error None; the lifespan context not yet torn down
NoThreads ==
    [timer |-> 0, timers |-> <<>>, events |-> <<>>, changed |-> {},
     batches |-> <<>>, inside |-> FALSE, complete |-> FALSE, error |-> FALSE,
     closed |-> FALSE]

\* the repositories the server is started on
InitialRepos ==
    {[p \in Paths |-> Absent],
     [p \in Paths |-> IF p = "a.py" THEN SrcImport
                      ELSE IF p = "b.py" THEN SrcDefG ELSE Absent]}

Init ==
    /\ fs \in InitialRepos
    /\ pending = <<>>
    /\ builder = EmptyBuilder
    /\ store = EmptyStore
    /\ phase = "starting"
    /\ scan = <<>>
    /\ synced = [p \in Paths |-> <<>>]
    /\ last = NoOp("init")
    /\ streamed = <<>>
    /\ ops = 0
    /\ th = NoThreads

(***************************************************************************)
(* The watcher (watcher/handler.py)                                        *)
(***************************************************************************)
RECURSIVE SetPending(_, _, _, _)
\* self._pending_changes[path] = change_type
SetPending(pend, path, change_type, origin) ==
    IF pend = <<>> THEN <<(<<path, change_type, origin>>)>>
    ELSE IF Head(pend)[1] = path
         THEN <<(<<path, change_type, origin>>)>> \o Tail(pend)
         ELSE <<Head(pend)>> \o SetPending(Tail(pend), path, change_type, origin)

\* a _handle_change that forgets what was pending before
handle_change_replace(pend, path, change_type, origin) ==
    <<(<<path, change_type, origin>>)>>

\* DebouncedFileHandler._handle_change (every path of the model is a
\* supported source file, so _should_process holds)
handle_change(pend, path, change_type, origin) ==
    SetPending(pend, path, change_type, origin)

\* an editor creates or rewrites a file: on_created / on_modified
FsWrite(path, src) ==
    /\ ops < MaxOps
    /\ src \in SourcesFor(path)
    /\ fs' = [fs EXCEPT ![path] = src]
    /\ pending' = handle_change(pending, path, "upsert", NoPath)
    /\ ops' = ops + 1
    /\ UNCHANGED <<th, builder, store, phase, scan, synced, last, streamed>>

\* a file is deleted: on_deleted
FsDelete(path) ==
    /\ ops < MaxOps
    /\ fs[path].exists
    /\ fs' = [fs EXCEPT ![path] = Absent]
    /\ pending' = handle_change(pending, path, "delete", NoPath)
    /\ ops' = ops + 1
    /\ UNCHANGED <<th, builder, store, phase, scan, synced, last, streamed>>

\* a file is moved: on_moved
FsMove(src_path, dest_path) ==
    /\ ops < MaxOps
    /\ src_path # dest_path
    /\ {src_path, dest_path} \subseteq Movable
    /\ fs[src_path].exists
    /\ fs' = [fs EXCEPT ![dest_path] = fs[src_path], ![src_path] = Absent]
    /\ pending' = handle_change(handle_change(pending, src_path, "delete", NoPath),
                                dest_path, "upsert", src_path)
    /\ ops' = ops + 1
    /\ UNCHANGED <<th, builder, store, phase, scan, synced, last, streamed>>

\* a flush that delivers the labels as the events recorded them
CorrectedAsRecorded(pend, disk) == pend

RECURSIVE Corrected(_, _)
\* _flush_changes: upsert if the file exists now, delete otherwise
Corrected(pend, disk) ==
    IF pend = <<>> THEN <<>>
    ELSE <<(<<Head(pend)[1],
              IF disk[Head(pend)[1]].exists THEN "upsert" ELSE "delete",
              Head(pend)[3]>>)>> \o Corrected(Tail(pend), disk)


(***************************************************************************)
(* The event pipeline (server.py, handle_changes)                          *)
(***************************************************************************)
RECURSIVE PairIdHash(_)
\* the (id, content_hash) of the entities handed to the embedding generator
PairIdHash(entities) ==
    IF entities = <<>> THEN <<>>
    ELSE <<(<<Head(entities).id, Head(entities).content_hash>>)>>
         \o PairIdHash(Tail(entities))

RECURSIVE ToEmbed(_, _)
\* the entities a sync over `existing` selects for embedding (to_embed)
ToEmbed(embeddable, existing) ==
    Categorize(embeddable, existing, EmptyCategories).to_embed

\* the entities of one file in an entity list
RECURSIVE OfFile(_, _)
OfFile(entities, path) ==
    IF entities = <<>> THEN <<>>
    ELSE (IF Head(entities).file_path = path THEN <<Head(entities)>> ELSE <<>>)
         \o OfFile(Tail(entities), path)

\* one item of handle_changes on the accumulator
\*   [b, store, synced, entries]
HandleOne(acc, item) ==
    LET path == item[1] IN
    IF item[2] = "delete"
    THEN [b |-> remove_file(acc.b, path),
          store |-> delete_file(acc.store, path),
          synced |-> [acc.synced EXCEPT ![path] = <<>>],
          entries |-> Append(acc.entries,
              [kind |-> "delete", path |-> path, origin |-> item[3],
               entities |-> <<>>, removed |-> get_entities_by_file(acc.b.g, path),
               before |-> acc.store, result |-> EmptyResult, calls |-> <<>>,
               repeat |-> FALSE])]
    ELSE LET entities == parse_file(path, fs[path])
             r == sync_file(acc.store, path, entities, {})
             existing == get_content_hashes(acc.store)
         IN  [b |-> update_file(acc.b, path, entities),
              store |-> r.store,
              synced |-> [acc.synced EXCEPT ![path] = entities],
              entries |-> Append(acc.entries,
                  [kind |-> "upsert", path |-> path, origin |-> item[3],
                   entities |-> entities,
                   removed |-> get_entities_by_file(acc.b.g, path),
                   before |-> acc.store, result |-> r.result,
                   calls |-> PairIdHash(ToEmbed(Embeddable(entities),
                                [i \in {x \in DOMAIN existing :
                                          get_file_from_id(x) = path} |-> existing[i]])),
                   repeat |-> entities # <<>> /\ acc.synced[path] = entities])]

RECURSIVE handle_changes(_, _)
\* handle_changes: the items of the batch in order (graph_storage.save()
\* at the end does not change the index)
handle_changes(acc, changes) ==
    IF changes = <<>> THEN acc
    ELSE handle_changes(HandleOne(acc, Head(changes)), Tail(changes))

\* the debounce timer fires: _flush_changes delivers the batch to
\* handle_changes.  The watcher is started right after the indexing thread,
\* so a batch can be processed before, between and after the steps of the
\* initial indexing run.
Flush ==
    /\ pending # <<>>
    /\ LET acc == handle_changes(
                    [b |-> builder, store |-> store, synced |-> synced, entries |-> <<>>],
                    Corrected(pending, fs))
       IN  /\ builder' = acc.b
           /\ store' = acc.store
           /\ synced' = acc.synced
           /\ last' = [NoOp("batch") EXCEPT !.entries = acc.entries,
                                            !.gbefore = builder.g,
                                            !.sbefore = store]
    /\ pending' = <<>>
    /\ UNCHANGED <<th, fs, phase, scan, streamed, ops>>

(***************************************************************************)
(* Initial indexing (server.py, run_initial_indexing)                      *)
(***************************************************************************)
\* the orders in which rglob can yield the files of S
Orders(S) ==
    {o \in [1..Cardinality(S) -> S] : \A i, j \in 1..Cardinality(S) : o[i] = o[j] => i = j}

ExistingPaths == {p \in Paths : fs[p].exists}

\* one entry of `last` for a sync over a whole entity list
ScanEntry(kind, entities, before, r, repeat) ==
    [kind |-> kind, path |-> NoPath, origin |-> NoPath, entities |-> entities,
     removed |-> <<>>, before |-> before, result |-> r.result,
     calls |-> PairIdHash(ToEmbed(Embeddable(entities), get_content_hashes(before))),
     repeat |-> repeat]

\* the files a sync over `entities` has parsed
ParsedFiles(entities) == {entities[i].file_path : i \in 1..Len(entities)}

\* phase 1 of run_initial_indexing: parse_directory over the repository as
\* it is on disk now
IndexParse ==
    /\ phase = "starting"
    /\ \E order \in Orders(ExistingPaths) : scan' = ParseAll(order, fs)
    /\ phase' = "building_graph"
    /\ UNCHANGED <<th, fs, pending, builder, store, synced, last, streamed, ops>>

\* phase 2: build_from_entities over the parsed entities
IndexBuild ==
    /\ phase = "building_graph"
    /\ builder' = build_from_entities(builder, scan)
    /\ last' = [NoOp("initial_build") EXCEPT !.gbefore = builder.g, !.sbefore = store]
    /\ phase' = "syncing_embeddings"
    /\ UNCHANGED <<th, fs, pending, store, scan, synced, streamed, ops>>

\* phase 3: sync_entities over the parsed entities
IndexSync ==
    /\ phase = "syncing_embeddings"
    /\ LET r == sync_entities(store, scan, {})
       IN  /\ store' = r.store
           /\ last' = [NoOp("initial_index") EXCEPT
                          !.entries = <<ScanEntry("sync_entities", scan, store, r,
                              scan # <<>> /\
                              \A p \in ParsedFiles(scan) :
                                  synced[p] = OfFile(scan, p))>>,
                          !.gbefore = builder.g, !.sbefore = store]
           /\ synced' = [p \in Paths |->
                           IF p \in ParsedFiles(scan) THEN OfFile(scan, p)
                           ELSE synced[p]]
    /\ phase' = "complete"
    /\ UNCHANGED <<th, fs, pending, builder, scan, streamed, ops>>

Next ==
    \/ \E path \in Paths : \E src \in SourcesFor(path) : FsWrite(path, src)
    \/ \E path \in Paths : FsDelete(path)
    \/ \E src_path, dest_path \in Paths : FsMove(src_path, dest_path)
    \/ Flush
    \/ IndexParse
    \/ IndexBuild
    \/ IndexSync

Spec == Init /\ [][Next]_vars

\* The same server with the batches held back until the initial indexing run
\* has completed, as if one worker ran the run and the batches one at a time.
FlushSerial == phase = "complete" /\ Flush

NextSerial ==
    \/ \E path \in Paths : \E src \in SourcesFor(path) : FsWrite(path, src)
    \/ \E path \in Paths : FsDelete(path)
    \/ \E src_path, dest_path \in Paths : FsMove(src_path, dest_path)
    \/ FlushSerial
    \/ IndexParse
    \/ IndexBuild
    \/ IndexSync

SpecSerial == Init /\ [][NextSerial]_vars


(***************************************************************************)
(* Operations outside the event pipeline: the reindex tool                 *)
(* (tools/service_tools.py), a restart of the server process and a direct  *)
(* call of GraphStorage.add_edge.                                          *)
(***************************************************************************)
\* the path arguments of the reindex calls of the model
ReindexPaths == {NoPath, "b.py"}

\* reindex(path, full); path = NoPath stands for path=None.  A path that
\* does not exist returns an error before anything is changed.
Reindex(path, full) ==
    /\ ops < MaxOps
    /\ path # NoPath => fs[path].exists
    /\ \E order \in Orders(ExistingPaths) :
         LET b0 == IF full \/ path = NoPath THEN builder_clear(builder) ELSE builder
             entities == IF path # NoPath THEN parse_file(path, fs[path])
                         ELSE ParseAll(order, fs)
             r == IF full THEN full_reindex(store, entities, {})
                  ELSE sync_entities(store, entities, {})
             before == IF full THEN delete_by_repo(store) ELSE store
         IN  /\ builder' = build_from_entities(b0, entities)
             /\ store' = r.store
             /\ last' = [NoOp("reindex") EXCEPT
                            !.entries = <<ScanEntry(IF full THEN "full_reindex"
                                                    ELSE "sync_entities",
                                entities, before, r,
                                ~full /\ entities # <<>> /\
                                \A p \in ParsedFiles(entities) :
                                    synced[p] = OfFile(entities, p))>>,
                            !.gbefore = builder.g, !.sbefore = store]
             /\ synced' = [p \in Paths |->
                             IF p \in ParsedFiles(entities) THEN OfFile(entities, p)
                             ELSE IF full THEN <<>> ELSE synced[p]]
    /\ ops' = ops + 1
    /\ UNCHANGED <<th, fs, pending, phase, scan, streamed>>

\* the server process is restarted: lifespan builds a new GraphStorage,
\* GraphBuilder and watcher; the vector store is persistent
Restart ==
    /\ ops < MaxOps
    /\ builder' = EmptyBuilder
    /\ pending' = <<>>
    /\ phase' = "starting"
    /\ scan' = <<>>
    /\ last' = NoOp("restart")
    /\ ops' = ops + 1
    /\ UNCHANGED <<th, fs, store, synced, streamed>>

\* the (from_id, to_id) of the direct add_edge calls of the model
ProbeEdges ==
    {<<(<<REPO, "a.py", "f">>), (<<REPO, "b.py", "g">>)>>,
     <<(<<REPO, "a.py", "f">>), (<<REPO, "b.py", "nowhere">>)>>,
     <<(<<REPO, "b.py", "nowhere">>), (<<REPO, "b.py", "g">>)>>}

\* a client calls GraphStorage.add_edge(from_id, to_id, USES)
AddEdgeCall(from_id, to_id) ==
    /\ ops < MaxOps
    /\ builder' = [builder EXCEPT !.g = add_edge(@, from_id, to_id, "uses")]
    /\ last' = [NoOp("add_edge") EXCEPT !.gbefore = builder.g, !.sbefore = store,
                                        !.from_id = from_id, !.to_id = to_id]
    /\ ops' = ops + 1
    /\ UNCHANGED <<th, fs, pending, store, phase, scan, synced, streamed>>

\* the server with restarts of its process and a client of add_edge
NextFull ==
    \/ Next
    \/ Restart
    \/ \E pr \in ProbeEdges : AddEdgeCall(pr[1], pr[2])

SpecFull == Init /\ [][NextFull]_vars

\* the server with clients of the reindex tool
NextTools ==
    \/ Next
    \/ \E path \in ReindexPaths : \E full \in BOOLEAN : Reindex(path, full)

SpecTools == Init /\ [][NextTools]_vars


(***************************************************************************)
(* Cold start by streaming: every file of a repository is passed through   *)
(* update_file, one file at a time, starting from an empty builder.        *)
(***************************************************************************)
\* the texts a file of the streamed repository can hold
StreamSources(path) ==
    IF LanguageOf(path) = "python"
    THEN {SrcImport, SrcMethod, SrcDefG, SrcOverload}
    ELSE SourcesFor(path)

InitStream ==
    /\ fs \in {f \in [Paths -> UNION {StreamSources(p) : p \in Paths} \cup {Absent}] :
                 \A p \in Paths : f[p] \in StreamSources(p) \cup {Absent}}
    /\ pending = <<>>
    /\ builder = EmptyBuilder
    /\ store = EmptyStore
    /\ phase = "starting"
    /\ scan = <<>>
    /\ synced = [p \in Paths |-> <<>>]
    /\ last = NoOp("init")
    /\ streamed = <<>>
    /\ ops = 0
    /\ th = NoThreads

\* graph_builder.update_file(path, parser.parse_file(path)) for a file not
\* streamed yet
StreamFile(path) ==
    /\ fs[path].exists
    /\ path \notin Range(streamed)
    /\ builder' = update_file(builder, path, parse_file(path, fs[path]))
    /\ streamed' = Append(streamed, path)
    /\ last' = [NoOp("stream") EXCEPT !.gbefore = builder.g]
    /\ UNCHANGED <<th, fs, pending, store, phase, scan, synced, ops>>

NextStream == \E path \in Paths : StreamFile(path)

SpecStream == InitStream /\ [][NextStream]_vars


(***************************************************************************)
(* The threads of the server process (server.py, lifespan;                 *)
(* watcher/handler.py).  lifespan starts the indexing thread and then the  *)
(* watcher.  The watchdog observer thread calls on_created / on_modified / *)
(* on_deleted / on_moved; every debounce timer is a thread of its own that *)
(* runs _flush_changes and, inside it, the handle_changes callback; the    *)
(* tools run on the event loop.  Nothing but the handler's own lock        *)
(* (around `pending` and `_timer`) orders these threads, so the steps of   *)
(* this specification are the stretches of code between two points where   *)
(* another thread can run.                                                 *)
(***************************************************************************)
\* the texts an editor writes to each path while the threads are observed
ThreadSources(path) ==
    CASE path = "a.py" -> {SrcMethod}
      [] path = "b.py" -> {SrcDefG2, Unreadable}
      [] OTHER -> {}

\* _handle_change under the lock, after the change is recorded: cancel() on
\* the current timer (which stops it only while it is still waiting), then
\* a new timer is created and started
reset_timer(t) ==
    LET timers == IF t.timer # 0 /\ t.timers[t.timer] = "waiting"
                  THEN [t.timers EXCEPT ![t.timer] = "cancelled"]
                  ELSE t.timers
    IN  [t EXCEPT !.timers = Append(timers, "waiting"), !.timer = Len(timers) + 1]

\* the batch a timer thread hands to the callback
NewBatch(t, recorded, items, superseded, changed, disk) ==
    [timer |-> t, recorded |-> recorded, items |-> items, superseded |-> superseded,
     changed |-> changed, disk |-> disk,
     pos |-> 1, mid |-> FALSE, entities |-> <<>>, before |-> <<>>,
     log |-> <<>>, saves |-> 0]

\* the callback of batch b has not returned yet
InProgress(b) == b.saves = 0

\* the watchdog observer has not been stopped and the process has not exited
Running == ~th.closed

\* an editor creates or rewrites a file; watchdog queues the event
ThWrite(path, src) ==
    /\ Running
    /\ ops < MaxOps
    /\ src \in ThreadSources(path)
    /\ fs' = [fs EXCEPT ![path] = src]
    /\ th' = [th EXCEPT !.events = Append(@, <<path, "upsert", NoPath>>)]
    /\ ops' = ops + 1
    /\ UNCHANGED <<pending, builder, store, phase, scan, synced, streamed, last>>

\* a file is deleted; watchdog queues the event
ThDelete(path) ==
    /\ Running
    /\ ops < MaxOps
    /\ path \in Movable
    /\ fs[path].exists
    /\ fs' = [fs EXCEPT ![path] = Absent]
    /\ th' = [th EXCEPT !.events = Append(@, <<path, "delete", NoPath>>)]
    /\ ops' = ops + 1
    /\ UNCHANGED <<pending, builder, store, phase, scan, synced, streamed, last>>

\* a file is moved; on_moved makes two _handle_change calls, each taking
\* the lock on its own
ThMove(src_path, dest_path) ==
    /\ Running
    /\ ops < MaxOps
    /\ src_path # dest_path
    /\ {src_path, dest_path} \subseteq Movable
    /\ fs[src_path].exists
    /\ fs' = [fs EXCEPT ![dest_path] = fs[src_path], ![src_path] = Absent]
    /\ th' = [th EXCEPT !.events = @ \o <<(<<src_path, "delete", NoPath>>),
                                          (<<dest_path, "upsert", src_path>>)>>]
    /\ ops' = ops + 1
    /\ UNCHANGED <<pending, builder, store, phase, scan, synced, streamed, last>>

\* the observer thread delivers the oldest queued event: _handle_change
Deliver ==
    /\ Running
    /\ th.events # <<>>
    /\ LET ev == Head(th.events) IN
       /\ pending' = handle_change(pending, ev[1], ev[2], ev[3])
       /\ th' = reset_timer([th EXCEPT !.events = Tail(@),
                                       !.changed = @ \cup {ev[1]}])
    /\ UNCHANGED <<fs, builder, store, phase, scan, synced, streamed, ops, last>>

\* the debounce period of timer t ends before cancel() is called on it
TimerExpire(t) ==
    /\ Running
    /\ t \in DOMAIN th.timers
    /\ th.timers[t] = "waiting"
    /\ th' = [th EXCEPT !.timers[t] = "expired"]
    /\ UNCHANGED <<fs, pending, builder, store, phase, scan, synced, streamed, ops, last>>

\* the thread of timer t gets the lock in _flush_changes: nothing to do if
\* `pending` is empty; otherwise it takes the changes, clears `pending`,
\* sets _timer to None and, outside the lock, corrects the labels and calls
\* the callback
TimerFlush(t) ==
    /\ Running
    /\ t \in DOMAIN th.timers
    /\ th.timers[t] = "expired"
    /\ IF pending = <<>>
       THEN /\ th' = [th EXCEPT !.timers[t] = "done"]
            /\ UNCHANGED pending
       ELSE /\ th' = [th EXCEPT
                  !.timers[t] = "done",
                  !.timer = 0,
                  !.changed = {},
                  !.batches = Append(@,
                      NewBatch(t, pending, Corrected(pending, fs), th.timer # t, th.changed,
                               {p \in Paths : fs[p].exists}))]
            /\ pending' = <<>>
    /\ UNCHANGED <<fs, builder, store, phase, scan, synced, streamed, ops, last>>

\* one entry of a batch's log: the item, whether handling it raised, and the
\* nodes of the file and the store before and after it was handled
LogEntry(item, entities, failed, before, sbefore, after, safter) ==
    [path |-> item[1], kind |-> item[2], entities |-> entities, failed |-> failed,
     before |-> before, sbefore |-> sbefore, after |-> after, safter |-> safter]

\* the position of the callback's loop after an item was handled or raised
after_item_abort(b, failed) == IF failed THEN Len(b.items) + 1 ELSE b.pos + 1

\* handle_changes, lines 46-65: the except clause logs and the loop goes on
after_item(b, failed) == b.pos + 1

\* the callback of batch i starts on its next item.  A delete is
\* remove_file and delete_file; an upsert is parse_file and the first part
\* of update_file, the removal of the file's old nodes.  `failed` is the
\* vector store raising on its first call for the item.
BatchBegin(i, failed) ==
    /\ Running
    /\ i \in DOMAIN th.batches
    /\ LET b == th.batches[i] IN
       /\ InProgress(b) /\ ~b.mid /\ b.pos <= Len(b.items)
       /\ LET item == b.items[b.pos]
              path == item[1]
              before == get_entities_by_file(builder.g, path)
          IN  IF item[2] = "delete"
              THEN /\ builder' = remove_file(builder, path)
                   /\ store' = IF failed THEN store ELSE delete_file(store, path)
                   /\ th' = [th EXCEPT !.batches[i] =
                               [b EXCEPT !.pos = after_item(b, failed),
                                         !.log = Append(@, LogEntry(item, <<>>, failed,
                                                                    before, store, <<>>,
                                                                    store'))]]
              ELSE /\ ~failed
                   /\ builder' = RemoveFileNodes(builder, path)
                   /\ th' = [th EXCEPT !.batches[i] =
                               [b EXCEPT !.mid = TRUE,
                                         !.entities = parse_file(path, fs[path]),
                                         !.before = before]]
                   /\ UNCHANGED store
    /\ UNCHANGED <<fs, pending, phase, scan, synced, streamed, ops, last>>

\* the rest of the upsert: update_file adds the new nodes and edges, then
\* sync_file
BatchEnd(i, failed) ==
    /\ Running
    /\ i \in DOMAIN th.batches
    /\ LET b == th.batches[i] IN
       /\ InProgress(b) /\ b.mid
       /\ builder' = EdgesAll(AddAll(builder, b.entities), b.entities)
       /\ store' = IF failed THEN store
                   ELSE sync_file(store, b.items[b.pos][1], b.entities, {}).store
       /\ th' = [th EXCEPT !.batches[i] =
                   [b EXCEPT !.mid = FALSE, !.entities = <<>>, !.before = <<>>,
                             !.pos = after_item(b, failed),
                             !.log = Append(@,
                                 LogEntry(b.items[b.pos], b.entities, failed, b.before,
                                          store,
                                          get_entities_by_file(builder'.g, b.items[b.pos][1]),
                                          store'))]]
    /\ UNCHANGED <<fs, pending, phase, scan, synced, streamed, ops, last>>

\* GraphStorage.save: the graph is written to its file once more
save(b) == [b EXCEPT !.saves = @ + 1]

\* the loop of the callback is over: graph_storage.save(), and it returns
BatchSave(i) ==
    /\ Running
    /\ i \in DOMAIN th.batches
    /\ InProgress(th.batches[i]) /\ ~th.batches[i].mid
    /\ th.batches[i].pos > Len(th.batches[i].items)
    /\ th' = [th EXCEPT !.batches[i] = save(@)]
    /\ UNCHANGED <<fs, pending, builder, store, phase, scan, synced, streamed, ops, last>>

\* build_from_entities up to the end of its first pass: set_known_files and
\* the nodes
IdxBuildBegin ==
    /\ Running
    /\ phase = "building_graph" /\ ~th.inside
    /\ builder' = AddAll([builder EXCEPT !.known_files = FilePaths(scan),
                                         !.resolvers = TRUE], scan)
    /\ th' = [th EXCEPT !.inside = TRUE]
    /\ UNCHANGED <<fs, pending, store, phase, scan, synced, streamed, ops, last>>

\* the second pass of build_from_entities, the edges; then save and line 110
IdxBuildEnd ==
    /\ Running
    /\ th.inside
    /\ builder' = EdgesAll(builder, scan)
    /\ th' = [th EXCEPT !.inside = FALSE]
    /\ phase' = "syncing_embeddings"
    /\ UNCHANGED <<fs, pending, store, scan, synced, streamed, ops, last>>

\* a graph tool (tool_get_function_calls, tool_get_callers) reads the graph
\* on the event loop: `last` records the graph it read and the update_file
\* calls that were under way
Query ==
    /\ Running
    /\ last' = [NoOp("query") EXCEPT !.gbefore = builder.g,
                                     !.entries = SelectSeq(th.batches, LAMBDA b : b.mid)]
    /\ UNCHANGED <<th, fs, pending, builder, store, phase, scan, synced, streamed, ops>>

\* the cleanup of lifespan: watcher.stop() cancels the timer that is still
\* waiting and stops the observer, then graph_storage.save() and
\* embedding_storage.close(); the process exits and its daemon threads (the
\* timers and the indexing thread) end with it
Shutdown ==
    /\ Running
    /\ th' = [th EXCEPT
                !.closed = TRUE,
                !.timer = 0,
                !.timers = IF th.timer # 0 /\ th.timers[th.timer] = "waiting"
                           THEN [@ EXCEPT ![th.timer] = "cancelled"] ELSE @]
    /\ UNCHANGED <<fs, pending, builder, store, phase, scan, synced, streamed, ops, last>>

\* the file-system events of the thread-level specifications
WatchEvent ==
    \/ \E path \in Movable : \E src \in ThreadSources(path) : ThWrite(path, src)
    \/ \E path \in Movable : ThDelete(path)
    \/ \E s, d \in Movable : ThMove(s, d)

\* the watcher on its own: events, timers and the batches they deliver (the
\* callbacks are followed in SpecBatch and SpecThreads)
NextWatcher ==
    \/ WatchEvent
    \/ Deliver
    \/ \E t \in 1..(2 * MaxOps) : TimerExpire(t)
    \/ \E t \in 1..(2 * MaxOps) : TimerFlush(t)

SpecWatcher == Init /\ [][NextWatcher]_vars

\* The watcher left running after the last event: the observer thread hands
\* every queued event to the handler, a timer that is not cancelled reaches
\* the end of its debounce period, and the thread of an expired timer gets
\* the handler's lock.
SpecDelivery ==
    /\ Init /\ [][NextWatcher]_vars
    /\ WF_vars(Deliver)
    /\ \A t \in 1..(2 * MaxOps) : WF_vars(TimerExpire(t)) /\ WF_vars(TimerFlush(t))

\* the watcher and its callbacks, with a vector store that can raise
NextBatch ==
    \/ (ops < MaxChanges /\ WatchEvent)
    \/ Deliver
    \/ \E t \in 1..(2 * MaxChanges) : TimerExpire(t)
    \/ \E t \in 1..(2 * MaxChanges) : TimerFlush(t)
    \/ \E i \in 1..(2 * MaxChanges), failed \in BOOLEAN : BatchBegin(i, failed)
    \/ \E i \in 1..(2 * MaxChanges), failed \in BOOLEAN : BatchEnd(i, failed)
    \/ \E i \in 1..(2 * MaxChanges) : BatchSave(i)

SpecBatch == Init /\ [][NextBatch]_vars

\* the indexing thread, the watcher and its callbacks side by side
NextThreads ==
    \/ (ops < MaxChanges /\ WatchEvent)
    \/ Deliver
    \/ \E t \in 1..(2 * MaxChanges) : TimerExpire(t)
    \/ \E t \in 1..(2 * MaxChanges) : TimerFlush(t)
    \/ \E i \in 1..(2 * MaxChanges) : BatchBegin(i, FALSE)
    \/ \E i \in 1..(2 * MaxChanges) : BatchEnd(i, FALSE)
    \/ \E i \in 1..(2 * MaxChanges) : BatchSave(i)
    \/ (Running /\ IndexParse)
    \/ IdxBuildBegin
    \/ IdxBuildEnd
    \/ (Running /\ IndexSync)
    \/ Query
    \/ Shutdown

SpecThreads == Init /\ [][NextThreads]_vars

\* run_initial_indexing, line 95
IdxParsing ==
    /\ Running
    /\ phase = "starting"
    /\ phase' = "parsing"
    /\ UNCHANGED <<th, fs, pending, builder, store, scan, synced, streamed, ops, last>>

\* parse_directory, then line 104
IdxParse ==
    /\ Running
    /\ phase = "parsing"
    /\ \E order \in Orders(ExistingPaths) : scan' = ParseAll(order, fs)
    /\ phase' = "building_graph"
    /\ UNCHANGED <<th, fs, pending, builder, store, synced, streamed, ops, last>>

\* sync_entities, then line 114
IdxSync ==
    /\ Running
    /\ phase = "syncing_embeddings" /\ ~th.error
    /\ store' = sync_entities(store, scan, {}).store
    /\ phase' = "complete"
    /\ UNCHANGED <<th, fs, pending, builder, scan, synced, streamed, ops, last>>

\* the vector store raises in sync_entities: the except clause, line 119
IdxFail ==
    /\ Running
    /\ phase = "syncing_embeddings" /\ ~th.error
    /\ th' = [th EXCEPT !.error = TRUE]
    /\ UNCHANGED <<fs, pending, builder, store, phase, scan, synced, streamed, ops, last>>

\* line 115: indexing_complete = True
IdxDone ==
    /\ Running
    /\ phase = "complete" /\ ~th.complete
    /\ th' = [th EXCEPT !.complete = TRUE]
    /\ UNCHANGED <<fs, pending, builder, store, phase, scan, synced, streamed, ops, last>>

\* get_index_status: the status and the phase it reports
index_status(indexing_complete, indexing_error, indexing_phase) ==
    <<(IF indexing_error THEN "error"
       ELSE IF indexing_complete THEN "ready" ELSE "indexing"),
      (IF ~indexing_complete THEN indexing_phase ELSE "complete")>>

\* the tool get_index_status is called
GetIndexStatus ==
    /\ Running
    /\ last' = [NoOp("status") EXCEPT
                   !.result = index_status(th.complete, th.error, phase)]
    /\ UNCHANGED <<th, fs, pending, builder, store, phase, scan, synced, streamed, ops>>

\* the indexing thread step by step and the status tool, over a repository
\* that changes meanwhile
NextStatus ==
    \/ (ops < MaxChanges /\ WatchEvent)
    \/ IdxParsing
    \/ IdxParse
    \/ IdxBuildBegin
    \/ IdxBuildEnd
    \/ IdxSync
    \/ IdxFail
    \/ IdxDone
    \/ GetIndexStatus

SpecStatus == Init /\ [][NextStatus]_vars


(***************************************************************************)
(* The symbol table on its own: a client registers, unregisters and        *)
(* resolves symbols the way GraphBuilder._register_symbol registers        *)
(* functions and methods.                                                  *)
(***************************************************************************)
\* the files, the function name and the classes of the registered symbols
SymFiles == {"a.py", "b.py"}

SymClasses == {NoClass, "C"}

\* the functions and methods that are registered: g and C.g in each file
SymEntities == [file_path : SymFiles, name : {"g"}, class_name : SymClasses]

SymId(e) == EntityId("function", e.file_path, e.name, e.class_name)

\* the names that are resolved
SymNames == {"g", "C.g", "h"}

InitSymbols ==
    /\ fs = [p \in Paths |-> Absent]
    /\ pending = <<>>
    /\ builder = EmptyBuilder
    /\ store = EmptyStore
    /\ phase = "starting"
    /\ scan = <<>>
    /\ synced = [p \in Paths |-> <<>>]
    /\ last = NoOp("init")
    /\ streamed = <<>>
    /\ ops = 0
    /\ th = NoThreads

\* symbol_table.register(e.id, e.name, e.file_path, qualified_name) as in
\* GraphBuilder._register_symbol
SymRegister(e) ==
    /\ builder' = [builder EXCEPT !.st =
            register(@, SymId(e), e.name, e.file_path,
                     IF e.class_name # NoClass THEN e.class_name \o "." \o e.name
                     ELSE NoQualified, TRUE)]
    /\ last' = NoOp("register")
    /\ UNCHANGED <<th, fs, pending, store, phase, scan, synced, streamed, ops>>

\* symbol_table.unregister(e.id)
SymUnregister(e) ==
    /\ builder' = [builder EXCEPT !.st = unregister(@, SymId(e))]
    /\ last' = [NoOp("unregister") EXCEPT !.to_id = SymId(e), !.entries = <<builder.st>>]
    /\ UNCHANGED <<th, fs, pending, store, phase, scan, synced, streamed, ops>>

\* symbol_table.resolve(name, context_file); NoPath stands for None
SymResolve(name, context_file) ==
    /\ last' = [NoOp("resolve") EXCEPT
                    !.name = name, !.context_file = context_file,
                    !.result = resolve(builder.st, name, context_file)]
    /\ UNCHANGED <<th, fs, pending, builder, store, phase, scan, synced, streamed, ops>>

NextSymbols ==
    \/ \E e \in SymEntities : SymRegister(e)
    \/ \E e \in SymEntities : SymUnregister(e)
    \/ \E name \in SymNames : \E context_file \in SymFiles \cup {NoPath} :
          SymResolve(name, context_file)

SpecSymbols == InitSymbols /\ [][NextSymbols]_vars


(***************************************************************************)
(* The graph query tools (graph/queries.py, tools/graph_tools.py).  A      *)
(* response is a record with the keys of the dict the tool returns; a list *)
(* of node details is the set of the ids of the nodes.                     *)
(***************************************************************************)
\* node_data.get("name") if node_data else "unknown"
NameOrUnknown(g, id) == IF HasNode(g, id) THEN g.attr[id].name ELSE "unknown"

\* node_data.get("file_path") if node_data else None
PathOrNone(g, id) == IF HasNode(g, id) THEN g.attr[id].file_path ELSE "None"

\* the sources of the in-edges of type t
Sources(g, id, t) == {p[1] : p \in {x \in get_predecessors(g, id) : x[2] = t}}

\* get_function_calls / tool_get_function_calls
tool_get_function_calls(g, function_id) ==
    LET calls == get_successors(g, function_id, "calls") IN
    [function_id |-> function_id, calls |-> calls, count |-> Cardinality(calls)]

\* get_callers / tool_get_callers
tool_get_callers(g, function_id) ==
    LET callers == Sources(g, function_id, "calls") IN
    [function_id |-> function_id, callers |-> callers, count |-> Cardinality(callers)]

\* the nodes get_call_chain goes to from node_id, in the order of the graph
Neighbours(g, node_id, direction) ==
    LET ids == IF direction = "outgoing" THEN get_successors(g, node_id, "calls")
               ELSE Sources(g, node_id, "calls")
    IN  SelectSeq(g.order, LAMBDA x : x \in ids)

RECURSIVE traverse(_, _, _, _, _, _)
RECURSIVE traverse_each(_, _, _, _, _, _)
RECURSIVE traverse_each_fresh(_, _, _, _, _, _)
\* get_call_chain.traverse: the tree below node_id and the `visited` set
\* after it
traverse(g, node_id, depth, visited, max_depth, direction) ==
    IF depth > max_depth \/ node_id \in visited
    THEN [tree |-> [id |-> node_id, name |-> NameOrUnknown(g, node_id),
                    truncated |-> depth > max_depth, cycle |-> node_id \in visited,
                    next |-> <<>>],
          visited |-> visited]
    ELSE LET below == traverse_each(g, Neighbours(g, node_id, direction), depth + 1,
                                    visited \cup {node_id}, max_depth, direction)
         IN  [tree |-> [id |-> node_id, name |-> NameOrUnknown(g, node_id),
                        file_path |-> PathOrNone(g, node_id),
                        truncated |-> FALSE, cycle |-> FALSE, next |-> below.trees],
              visited |-> below.visited]

\* a loop in which every callee starts from the visited set of its parent:
\* what one branch visits is not seen by the next
traverse_each_fresh(g, ids, depth, visited, max_depth, direction) ==
    IF ids = <<>> THEN [trees |-> <<>>, visited |-> visited]
    ELSE LET first == traverse(g, Head(ids), depth, visited, max_depth, direction)
             rest == traverse_each_fresh(g, Tail(ids), depth, visited, max_depth,
                                         direction)
         IN  [trees |-> <<first.tree>> \o rest.trees, visited |-> visited]

\* the loop of traverse over the callees (or the callers)
traverse_each(g, ids, depth, visited, max_depth, direction) ==
    IF ids = <<>> THEN [trees |-> <<>>, visited |-> visited]
    ELSE LET first == traverse(g, Head(ids), depth, visited, max_depth, direction)
             rest == traverse_each(g, Tail(ids), depth, first.visited, max_depth,
                                   direction)
         IN  [trees |-> <<first.tree>> \o rest.trees, visited |-> rest.visited]

\* get_call_chain / tool_get_call_chain with the default max_depth
tool_get_call_chain(g, function_id, direction) ==
    traverse(g, function_id, 0, {}, 5, direction).tree

\* get_class_hierarchy / tool_get_class_hierarchy with direction "both"
tool_get_class_hierarchy(g, class_id) ==
    [id |-> class_id, name |-> NameOrUnknown(g, class_id),
     file_path |-> PathOrNone(g, class_id),
     parents |-> get_successors(g, class_id, "inherits"),
     children |-> Sources(g, class_id, "inherits")]

\* get_file_structure
get_file_structure(g, file_id) ==
    IF ~HasNode(g, file_id) THEN [error |-> "File not found"]
    ELSE LET defined == get_successors(g, file_id, "defines") IN
         [id |-> file_id, name |-> g.attr[file_id].name,
          file_path |-> g.attr[file_id].file_path,
          classes |-> {<<c, get_successors(g, c, "contains")>> :
                          c \in {x \in defined : g.attr[x].type = "class"}},
          functions |-> {x \in defined : /\ g.attr[x].type = "function"
                                         /\ g.attr[x].class_name = NoClass},
          imports |-> get_successors(g, file_id, "imports")]

\* the query tools and the ids they are called with: two entities of the
\* repository, a file, and an id that is no node of any graph
GraphTools ==
    {"get_function_calls", "get_callers", "get_call_chain", "get_class_hierarchy",
     "get_file_structure"}

QueryIds ==
    {<<REPO, "a.py", "f">>, <<REPO, "b.py", "g">>, <<REPO, "a.py">>,
     <<REPO, "b.py", "nowhere">>}

\* the response of a tool
Response(tool, g, id) ==
    CASE tool = "get_function_calls" -> tool_get_function_calls(g, id)
      [] tool = "get_callers" -> tool_get_callers(g, id)
      [] tool = "get_call_chain" -> tool_get_call_chain(g, id, "outgoing")
      [] tool = "get_class_hierarchy" -> tool_get_class_hierarchy(g, id)
      [] tool = "get_file_structure" -> get_file_structure(g, id)

\* a client calls a query tool
GraphTool(tool, id) ==
    /\ last' = [NoOp("tool") EXCEPT !.name = tool, !.to_id = id, !.gbefore = builder.g,
                                    !.result = Response(tool, builder.g, id)]
    /\ UNCHANGED <<th, fs, pending, builder, store, phase, scan, synced, streamed, ops>>

\* the initial indexing and a client of the query tools
NextQueries ==
    \/ IndexParse
    \/ IndexBuild
    \/ IndexSync
    \/ \E tool \in GraphTools, id \in QueryIds : GraphTool(tool, id)

SpecQueries == Init /\ [][NextQueries]_vars


(***************************************************************************)
(* C and C++ includes (parser/treesitter.py, _extract_imports;             *)
(* graph/import_resolver.py, CImportResolver).  An include directive is a  *)
(* record [angle, name]: #include <name> or #include "name".               *)
(***************************************************************************)
\* the files of the repository that includes are resolved against
IncludeFiles == {"u.h", "sub/u.h", "include/u.h", "src/u.h", "v.hpp"}

\* the include directives and the files they stand in
Includes == [angle : BOOLEAN, name : {"u.h", "v.hpp"}]

IncludingFiles == {"m.c", "sub/m.c"}

\* _extract_imports: the text of the path node with quotes stripped; the
\* angle brackets of a system_lib_string stay
extract_import(inc) == [brackets |-> inc.angle, text |-> inc.name]

\* import_name.strip('"\'<>') in CImportResolver.resolve
strip_include(import) == import.text

\* import_name.endswith(".h")
EndsWithH(name) == name \in {"u.h"}

\* str(Path(context_file).parent / import_name)
BesideContext(context_file, name) ==
    IF context_file = "sub/m.c" THEN "sub/" \o name ELSE name

\* CImportResolver.resolve on what the parser extracted: the resolved path
\* or <<>> when the include is external
c_resolve(import, context_file, known_files) ==
    LET import_name == strip_include(import)
        is_system == ~EndsWithH(import_name)
    IN  IF is_system THEN <<>>
        ELSE find_file(<<BesideContext(context_file, import_name),
                         import_name,
                         "include/" \o import_name,
                         "src/" \o import_name>>, known_files)

InitIncludes ==
    /\ fs = [p \in Paths |-> Absent]
    /\ pending = <<>>
    /\ \E known \in SUBSET IncludeFiles :
           builder = [EmptyBuilder EXCEPT !.known_files = known, !.resolvers = TRUE]
    /\ store = EmptyStore
    /\ phase = "starting"
    /\ scan = <<>>
    /\ synced = [p \in Paths |-> <<>>]
    /\ last = NoOp("init")
    /\ streamed = <<>>
    /\ ops = 0
    /\ th = NoThreads

\* the include `inc` of file context_file is extracted and resolved
ResolveInclude(inc, context_file) ==
    /\ last' = [NoOp("include") EXCEPT
                   !.entries = <<inc>>, !.context_file = context_file,
                   !.result = c_resolve(extract_import(inc), context_file,
                                        builder.known_files)]
    /\ UNCHANGED <<th, fs, pending, builder, store, phase, scan, synced, streamed, ops>>

NextIncludes ==
    \E inc \in Includes, context_file \in IncludingFiles : ResolveInclude(inc, context_file)

SpecIncludes == InitIncludes /\ [][NextIncludes]_vars


(***************************************************************************)
(* The graph storage on its own: a client adds entities and edges          *)
(* (graph/storage.py, GraphStorage.add_entity and add_edge).               *)
(***************************************************************************)
\* the entities that are added: in a.py, a function g, a class g (a file
\* may define both), a function h and a method C.g
StorageEntities ==
    {Entity("function", "a.py", "g", NoClass, <<>>, <<>>, "def g(): pass", "python",
            <<>>, <<>>),
     Entity("class", "a.py", "g", NoClass, <<>>, <<>>, "", "python", <<>>, <<>>),
     Entity("function", "a.py", "h", NoClass, <<>>, <<>>, "def h(): pass", "python",
            <<>>, <<>>),
     Entity("function", "a.py", "g", "C", <<>>, <<>>, "def g(self): pass", "python",
            <<>>, <<>>)}

\* the ids and the edge types of the add_edge calls
StorageIds == {<<REPO, "a.py", "g">>, <<REPO, "a.py", "h">>}

StorageTypes == {"calls", "defines"}

\* storage.add_entity(e)
StorageAddEntity(e) ==
    /\ builder' = [builder EXCEPT !.g = add_entity(@, e)]
    /\ last' = [NoOp("storage_add_entity") EXCEPT !.entries = <<e>>,
                                                  !.gbefore = builder.g]
    /\ UNCHANGED <<th, fs, pending, store, phase, scan, synced, streamed, ops>>

\* storage.add_edge(from_id, to_id, t)
StorageAddEdge(from_id, to_id, t) ==
    /\ builder' = [builder EXCEPT !.g = add_edge(@, from_id, to_id, t)]
    /\ last' = [NoOp("storage_add_edge") EXCEPT !.gbefore = builder.g,
                                                !.from_id = from_id, !.to_id = to_id,
                                                !.name = t]
    /\ UNCHANGED <<th, fs, pending, store, phase, scan, synced, streamed, ops>>

NextStorage ==
    \/ \E e \in StorageEntities : StorageAddEntity(e)
    \/ \E from_id, to_id \in StorageIds, t \in StorageTypes :
           StorageAddEdge(from_id, to_id, t)

SpecStorage == InitSymbols /\ [][NextStorage]_vars


(***************************************************************************)
(* The embedding sync on its own (embeddings/sync.py): sync_entities and   *)
(* sync_file are called on parsed entity lists while the embedding backend *)
(* fails on some of the batches.                                           *)
(***************************************************************************)
\* the functions of a module that does not fit in one batch
BulkNames ==
    <<
      "f01", "f02", "f03", "f04", "f05", "f06", "f07", "f08", "f09",
      "f10", "f11", "f12", "f13", "f14", "f15", "f16", "f17", "f18",
      "f19", "f20", "f21", "f22", "f23", "f24", "f25", "f26", "f27",
      "f28", "f29", "f30", "f31", "f32", "f33" >>

RECURSIVE BulkFuncs(_, _)
\* def f01(): return <version> ... one definition per name
BulkFuncs(names, version) ==
    IF names = <<>> THEN <<>>
    ELSE <<FuncDef(Head(names), NoClass, <<>>,
                   "def " \o Head(names) \o "(): return " \o version)>>
         \o BulkFuncs(Tail(names), version)

\* b.py with every function of BulkNames, as first written ("1") and with
\* every body edited ("2")
SrcBulk(version) == Source(BulkFuncs(BulkNames, version), <<>>, <<>>, <<>>)

\* the entity lists handed to sync_entities: the parse of a.py, of b.py, or
\* of both
SyncLists ==
    LET a == parse_file("a.py", SrcMethod)
        bs == {parse_file("b.py", src) : src \in {SrcBulk("1"), SrcBulk("2"), SrcDefG}}
    IN  {a} \cup bs \cup {a \o b : b \in bs}

\* the per-file calls of sync_file: <<file_path, entities parsed from it>>
SyncFileCalls ==
    {<<"a.py", parse_file("a.py", SrcMethod)>>}
    \cup {<<"b.py", parse_file("b.py", src)>> : src \in {SrcBulk("1"), SrcBulk("2"), SrcDefG}}

\* the batches (numbered from 0) on which the backend raises during one call
SyncFailing == SUBSET {0, 1}

\* what one call leaves behind for inspection: the SyncResult, the ids
\* handed to the generator and the batches that failed
SyncOutcome(r, failing) == [result |-> r.result, calls |-> r.calls, failing |-> failing]

\* sync.sync_entities(entities)
SyncEntities(entities, failing) ==
    LET r == sync_entities(store, entities, failing) IN
    /\ store' = r.store
    /\ last' = [NoOp("sync_entities") EXCEPT !.entries = entities, !.sbefore = store,
                                             !.result = SyncOutcome(r, failing)]
    /\ UNCHANGED <<th, fs, pending, builder, phase, scan, synced, streamed, ops>>

\* sync.sync_file(file_path, entities)
SyncFile(file_path, entities, failing) ==
    LET r == sync_file(store, file_path, entities, failing) IN
    /\ store' = r.store
    /\ last' = [NoOp("sync_file") EXCEPT !.entries = entities, !.sbefore = store,
                                         !.context_file = file_path,
                                         !.result = SyncOutcome(r, failing)]
    /\ UNCHANGED <<th, fs, pending, builder, phase, scan, synced, streamed, ops>>

NextSync ==
    \/ \E entities \in SyncLists, failing \in SyncFailing : SyncEntities(entities, failing)
    \/ \E call \in SyncFileCalls, failing \in SyncFailing :
           SyncFile(call[1], call[2], failing)

SpecSync == InitSymbols /\ [][NextSync]_vars

\* The same entity list is synced cycle after cycle (every run of
\* sync_entities over a repository that is not edited in between): scan is
\* the list, the store starts empty or as an earlier complete sync of some
\* list left it.  The lists are the parses of a.py, of b.py, or of both.
RetryLists ==
    LET a == parse_file("a.py", SrcMethod)
        bs == {parse_file("b.py", src) : src \in SourcesFor("b.py")}
    IN  {a} \cup bs \cup {a \o b : b \in bs}

InitRetry ==
    /\ fs = [p \in Paths |-> Absent]
    /\ pending = <<>>
    /\ builder = EmptyBuilder
    /\ store \in {EmptyStore}
                 \cup {sync_entities(EmptyStore, entities, {}).store : entities \in RetryLists}
    /\ phase = "starting"
    /\ scan \in RetryLists
    /\ synced = [p \in Paths |-> <<>>]
    /\ last = NoOp("init")
    /\ streamed = <<>>
    /\ ops = 0
    /\ th = NoThreads

\* one cycle over the list, the backend raising on the batches of `failing`
SyncCycle(failing) == SyncEntities(scan, failing)

NextRetry == \E failing \in SyncFailing : SyncCycle(failing)

\* Cycles keep being run and the backend eventually answers: a cycle in
\* which no batch fails is taken if it stays possible.
SpecRetry == InitRetry /\ [][NextRetry]_vars /\ WF_vars(SyncCycle({}))


(***************************************************************************)
(* The graph builder on its own (graph/builder.py): files are edited on    *)
(* disk and the builder is driven through build_from_entities (the reindex *)
(* tool), update_file, remove_file and clear in any order.                 *)
(***************************************************************************)
\* class Outer:
\*     class Inner:
\*         def m(self): pass
SrcNested ==
    Source(<<FuncDef("m", "Outer.Inner", <<>>, "def m(self): pass")>>,
           <<ClassDef("Outer", <<>>), ClassDef("Inner", <<>>)>>, <<>>, <<>>)

\* import g
\* def f(): pass              (g is a module outside the repository)
SrcImportG == Source(<<FuncDef("f", NoClass, <<>>, "def f(): pass")>>, <<>>, <<>>, <<"g">>)

BuilderPaths == {"a.py", "b.py"}

\* the texts each file can hold
BuilderSources(path) ==
    IF path = "a.py" THEN {SrcMethod, SrcNested, SrcImportG} ELSE {SrcDefG, SrcImport}

\* the file is written or deleted on disk; the builder is not told
BuilderEdit(path, src) ==
    /\ fs' = [fs EXCEPT ![path] = src]
    /\ UNCHANGED <<th, pending, builder, store, phase, scan, synced, last, streamed, ops>>

\* the graph part of the reindex tool: path = NoPath stands for path=None
\* (clear, then build from the parse of the whole repository); with a file
\* path the graph is built from the parse of that file, without clear
BuilderReindex(path) ==
    /\ ops < MaxOps
    /\ path # NoPath => fs[path].exists
    /\ \E order \in {<<"a.py", "b.py">>, <<"b.py", "a.py">>} :
         LET b0 == IF path = NoPath THEN builder_clear(builder) ELSE builder
             entities == IF path # NoPath THEN parse_file(path, fs[path])
                         ELSE ParseAll(order, fs)
         IN  /\ builder' = build_from_entities(b0, entities)
             /\ last' = [NoOp("reindex") EXCEPT !.entries = entities,
                                                !.gbefore = builder.g,
                                                !.context_file = path]
    /\ ops' = ops + 1
    /\ UNCHANGED <<th, fs, pending, store, phase, scan, synced, streamed>>

\* graph_builder.update_file(path, parser.parse_file(path))
BuilderUpdate(path) ==
    /\ ops < MaxOps
    /\ LET entities == parse_file(path, fs[path]) IN
       /\ builder' = update_file(builder, path, entities)
       /\ last' = [NoOp("update_file") EXCEPT !.entries = entities,
                                              !.gbefore = builder.g,
                                              !.context_file = path]
    /\ ops' = ops + 1
    /\ UNCHANGED <<th, fs, pending, store, phase, scan, synced, streamed>>

\* graph_builder.remove_file(path)
BuilderRemove(path) ==
    /\ ops < MaxOps
    /\ builder' = remove_file(builder, path)
    /\ last' = [NoOp("remove_file") EXCEPT !.gbefore = builder.g, !.context_file = path]
    /\ ops' = ops + 1
    /\ UNCHANGED <<th, fs, pending, store, phase, scan, synced, streamed>>

\* graph_builder.clear()
BuilderClear ==
    /\ ops < MaxOps
    /\ builder' = builder_clear(builder)
    /\ last' = [NoOp("clear") EXCEPT !.gbefore = builder.g]
    /\ ops' = ops + 1
    /\ UNCHANGED <<th, fs, pending, store, phase, scan, synced, streamed>>

NextBuilder ==
    \/ \E path \in BuilderPaths :
           \E src \in BuilderSources(path) \cup {Absent} : BuilderEdit(path, src)
    \/ \E path \in BuilderPaths \cup {NoPath} : BuilderReindex(path)
    \/ \E path \in BuilderPaths : BuilderUpdate(path)
    \/ \E path \in BuilderPaths : BuilderRemove(path)
    \/ BuilderClear

SpecBuilder == InitSymbols /\ [][NextBuilder]_vars


(***************************************************************************)
(* get_call_chain on its own (graph/queries.py): the call graph is any     *)
(* graph of CALLS edges over three functions, self-calls and cycles        *)
(* included, and a client asks for call chains.                            *)
(***************************************************************************)
ChainFunctions ==
    <<Entity("function", "a.py", "p", NoClass, <<>>, <<>>, "def p(): ...", "python",
             <<>>, <<>>),
      Entity("function", "a.py", "q", NoClass, <<>>, <<>>, "def q(): ...", "python",
             <<>>, <<>>),
      Entity("function", "a.py", "r", NoClass, <<>>, <<>>, "def r(): ...", "python",
             <<>>, <<>>)>>

ChainIds == Range(Ids(ChainFunctions))

RECURSIVE AddEntities(_, _)
\* storage.add_entity for each entity of the list
AddEntities(g, entities) ==
    IF entities = <<>> THEN g
    ELSE AddEntities(add_entity(g, Head(entities)), Tail(entities))

RECURSIVE AddCalls(_, _)
\* storage.add_edge(from, to, CALLS) for each pair
AddCalls(g, pairs) ==
    IF pairs = {} THEN g
    ELSE LET pr == CHOOSE x \in pairs : TRUE IN
         AddCalls(add_edge(g, pr[1], pr[2], "calls"), pairs \ {pr})

\* the max_depth arguments of the calls
ChainDepths == {0, 1, 2}

InitChain ==
    /\ fs = [p \in Paths |-> Absent]
    /\ pending = <<>>
    /\ \E pairs \in SUBSET (ChainIds \X ChainIds) :
           builder = [EmptyBuilder EXCEPT
                         !.g = AddCalls(AddEntities(EmptyGraph, ChainFunctions), pairs)]
    /\ store = EmptyStore
    /\ phase = "starting"
    /\ scan = <<>>
    /\ synced = [p \in Paths |-> <<>>]
    /\ last = NoOp("init")
    /\ streamed = <<>>
    /\ ops = 0
    /\ th = NoThreads

\* get_call_chain(storage, function_id, max_depth, direction)
get_call_chain(g, function_id, max_depth, direction) ==
    traverse(g, function_id, 0, {}, max_depth, direction).tree

CallChain(function_id, max_depth, direction) ==
    /\ last' = [NoOp("get_call_chain") EXCEPT
                   !.to_id = function_id, !.name = direction, !.entries = <<max_depth>>,
                   !.result = get_call_chain(builder.g, function_id, max_depth, direction)]
    /\ UNCHANGED <<th, fs, pending, builder, store, phase, scan, synced, streamed, ops>>

NextChain ==
    \E function_id \in ChainIds, max_depth \in ChainDepths,
       direction \in {"outgoing", "incoming"} :
        CallChain(function_id, max_depth, direction)

SpecChain == InitChain /\ [][NextChain]_vars


(***************************************************************************)
(* Properties                                                              *)
(***************************************************************************)
Nodes == DOMAIN builder.g.attr

Edges == builder.g.edges

\* C1: after any sequence of build_from_entities, update_file and
\* remove_file calls every edge of the graph has its source and its target
\* among the nodes, and an add_edge call with a missing endpoint leaves the
\* graph as it was (no edge added, no node created).
C1_EdgeEndpointsExist ==
    /\ \A e \in Edges : e[1] \in Nodes /\ e[2] \in Nodes
    /\ (last.op = "add_edge"
        /\ ~(HasNode(last.gbefore, last.from_id) /\ HasNode(last.gbefore, last.to_id)))
       => builder.g = last.gbefore

\* an add_edge call from an existing node to a missing one, on a graph that
\* has edges
C1_Witness ==
    /\ last.op = "add_edge"
    /\ HasNode(last.gbefore, last.from_id)
    /\ ~HasNode(last.gbefore, last.to_id)
    /\ Edges # {}


Attr(id) == builder.g.attr[id]

Externals == {id \in Nodes : Attr(id).type = "external"}

\* C2: whenever the placeholder external:n is a node of the graph, no
\* Function, Class, TypeDefinition or File node has name n.
C2_NoShadowedPlaceholder ==
    \A x \in Externals :
        \A id \in Nodes \ Externals : Attr(id).name # Attr(x).name

\* the same for the entities the symbol table registers (all but File)
C2_NoShadowedPlaceholderRegistered ==
    \A x \in Externals :
        \A id \in Nodes \ Externals :
            Attr(id).type # "file" => Attr(id).name # Attr(x).name


Entries == {last.entries[i] : i \in 1..Len(last.entries)}

\* the positions of the embeddable entities of en whose id the store held
\* before the sync with the entity's content hash
Unchanged(en) ==
    {i \in 1..Len(en.entities) :
        /\ is_embeddable(en.entities[i])
        /\ en.entities[i].id \in DOMAIN en.before
        /\ en.before[en.entities[i].id].content_hash = en.entities[i].content_hash}

\* C3: after any sequence of upsert and delete events processed by the
\* pipeline, the id of every record of the vector store is a node of the
\* current graph.
C3_StoreWithinGraph == \A id \in DOMAIN store : id \in Nodes

\* C4: an entity passed to sync_entities whose id the store holds with the
\* entity's content hash is counted as skipped and is not handed to the
\* embedding generator; the records of a previous process count as well.
C4_UnchangedSkipped ==
    \A en \in Entries :
        en.kind = "sync_entities" =>
            /\ en.result.skipped = Cardinality(Unchanged(en))
            /\ \A i \in Unchanged(en) :
                 <<en.entities[i].id, en.entities[i].content_hash>> \notin Range(en.calls)

\* the initial scan of a restarted server over a store that already holds
\* the records: some entities are skipped, another is embedded
C4_Witness ==
    /\ last.op = "initial_index"
    /\ last.sbefore # EmptyStore
    /\ \E en \in Entries :
         /\ en.kind = "sync_entities"
         /\ Unchanged(en) # {}
         /\ en.calls # <<>>

\* C5: a second sync_entities or sync_file run on the same entity list
\* returns added = 0, updated = 0, deleted = 0 and skipped = the number of
\* embeddable entities of the list, and hands nothing to the embedding
\* generator.
C5_ResyncIsNoOp ==
    \A en \in Entries :
        en.repeat =>
            /\ en.result.added = 0
            /\ en.result.updated = 0
            /\ en.result.deleted = 0
            /\ en.result.skipped = Len(Embeddable(en.entities))
            /\ en.calls = <<>>

\* the same, for entity lists in which no two entities share an id
C5_ResyncIsNoOpDistinctIds ==
    \A en \in Entries :
        (en.repeat /\ \A i, j \in 1..Len(en.entities) :
                        en.entities[i].id = en.entities[j].id => i = j) =>
            /\ en.result.added = 0
            /\ en.result.updated = 0
            /\ en.result.deleted = 0
            /\ en.result.skipped = Len(Embeddable(en.entities))
            /\ en.calls = <<>>


\* the paths of the entries of the last batch
BatchPaths == {en.path : en \in Entries}

\* the top-level functions, classes and types an upsert of the last batch
\* has added
Upserted ==
    UNION {{en.entities[i] : i \in 1..Len(en.entities)} :
             en \in {x \in Entries : x.kind = "upsert"}}

\* C6: when a function of a file calls a name nothing defines (the CALLS
\* edge goes to external:<name>) and a later batch indexes another file
\* that defines the name, then after that batch the placeholder is gone and
\* the function has a CALLS edge to the new definition.
C6_PlaceholderRepointed ==
    last.op = "batch" =>
        \A e \in last.gbefore.edges : \A d \in Upserted :
            (/\ e[3] = "calls"
             /\ last.gbefore.attr[e[2]].type = "external"
             /\ last.gbefore.attr[e[1]].file_path \notin BatchPaths
             /\ d.type \in {"function", "class", "type"}
             /\ d.class_name = NoClass
             /\ d.name = last.gbefore.attr[e[2]].name)
            => /\ e[2] \notin Nodes
               /\ <<e[1], d.id, "calls">> \in Edges

\* a.py's f called the undefined g, and a batch has just indexed b.py,
\* which defines g
C6_Witness ==
    /\ last.op = "batch"
    /\ <<(<<REPO, "a.py", "f">>), ExternalId("g"), "calls">> \in last.gbefore.edges
    /\ BatchPaths = {"b.py"}
    /\ <<REPO, "b.py", "g">> \in Nodes

\* C7: update_file(path, entities) keeps every edge that goes from an
\* entity of another file to an entity of path whose id is the same before
\* and after the update.
C7_IncomingEdgesKept ==
    last.op = "batch" =>
        \A e \in last.gbefore.edges :
            (/\ last.gbefore.attr[e[1]].type # "external"
             /\ last.gbefore.attr[e[1]].file_path \notin BatchPaths
             /\ last.gbefore.attr[e[2]].file_path \in
                    {en.path : en \in {x \in Entries : x.kind = "upsert"}}
             /\ e[2] \in Nodes)
            => e \in Edges

C9_DefinedByFile ==
    \A id \in Nodes :
        Attr(id).type \in {"function", "class", "type"} =>
            \E f \in Nodes :
                /\ Attr(f).type = "file"
                /\ Attr(f).file_path = Attr(id).file_path
                /\ id \in Range(Attr(f).defines)

\* the graph a single build_from_entities call builds from the files of
\* the repository, parsed in the order in which they were streamed
BuiltAtOnce == build_from_entities(EmptyBuilder, ParseAll(streamed, fs)).g

\* C10: streaming the files of a repository through update_file, one file
\* at a time in any order, gives the nodes and edges of a single
\* build_from_entities call over the entities of all the files.
C10_StreamEqualsBuild ==
    (streamed # <<>> /\ Range(streamed) = ExistingPaths) =>
        /\ Nodes = DOMAIN BuiltAtOnce.attr
        /\ Edges = BuiltAtOnce.edges

\* the same, for repositories whose files import nothing
C10_StreamEqualsBuildNoImports ==
    (/\ streamed # <<>> /\ Range(streamed) = ExistingPaths
     /\ \A p \in ExistingPaths : fs[p].imports = <<>>) =>
        /\ Nodes = DOMAIN BuiltAtOnce.attr
        /\ Edges = BuiltAtOnce.edges


Symbols == builder.st

\* C11: resolve(name, context_file) returns the qualified-scope entry for
\* name if there is one, otherwise the entry for name in the file-local
\* scope of context_file, otherwise the global-scope entry, otherwise
\* nothing.
C11_ResolveOrder ==
    last.op = "resolve" =>
        LET n == last.name
            f == last.context_file
        IN  /\ n \in DOMAIN Symbols.qualified_names
                => last.result = <<Symbols.qualified_names[n]>>
            /\ (n \notin DOMAIN Symbols.qualified_names
                /\ f \in DOMAIN Symbols.file_scopes
                /\ n \in DOMAIN Symbols.file_scopes[f])
                => last.result = <<Symbols.file_scopes[f][n]>>
            /\ (n \notin DOMAIN Symbols.qualified_names
                /\ ~(f \in DOMAIN Symbols.file_scopes
                     /\ n \in DOMAIN Symbols.file_scopes[f])
                /\ n \in DOMAIN Symbols.global_scope)
                => last.result = <<Symbols.global_scope[n]>>
            /\ (n \notin DOMAIN Symbols.qualified_names
                /\ ~(f \in DOMAIN Symbols.file_scopes
                     /\ n \in DOMAIN Symbols.file_scopes[f])
                /\ n \notin DOMAIN Symbols.global_scope)
                => last.result = <<>>

\* C.g is resolved from a.py while the qualified scope maps it to the
\* method of b.py and the file-local scope of a.py to the method of a.py
C11_Witness ==
    /\ last.op = "resolve"
    /\ last.name = "C.g"
    /\ last.context_file = "a.py"
    /\ "a.py" \in DOMAIN Symbols.file_scopes
    /\ "C.g" \in DOMAIN Symbols.file_scopes["a.py"]
    /\ "C.g" \in DOMAIN Symbols.qualified_names
    /\ Symbols.file_scopes["a.py"]["C.g"] # Symbols.qualified_names["C.g"]
    /\ last.result = <<(<<REPO, "b.py", "C.g">>)>>

\* C12: whenever a registered (and not since unregistered) entity of file X
\* has the simple name n, resolve(n, X) returns an entity of X with that
\* name, whatever was registered or unregistered for other files in between.
C12_OwnDefinitionWins ==
    \A e \in SymEntities :
        SymId(e) \in DOMAIN Symbols.entity_to_names =>
            \E d \in SymEntities :
                /\ d.file_path = e.file_path
                /\ d.name = e.name
                /\ resolve(Symbols, e.name, e.file_path) = <<SymId(d)>>

\* the batches whose callback has not returned, and those inside update_file
Delivered == {th.batches[i] : i \in DOMAIN th.batches}

Active == {i \in DOMAIN th.batches : InProgress(th.batches[i])}

Updating == {i \in DOMAIN th.batches : th.batches[i].mid}

\* C13: mutations of the graph and the symbol table never overlap: at most
\* one thread is inside build_from_entities or update_file at a time, and a
\* watcher batch is only processed once the batch delivered before it has
\* been processed.
C13_MutationsSerial ==
    /\ Cardinality(Updating) + (IF th.inside THEN 1 ELSE 0) <= 1
    /\ Cardinality(Active) <= 1

\* the nodes of file `path` in graph g
FileNodes(g, path) == Range(get_entities_by_file(g, path))

\* C14: a graph tool never reads the graph between the removal of a file's
\* old nodes and the addition of its new ones: of a file that update_file is
\* working on, the graph it reads holds the old nodes or the new ones.
C14_NoTornRead ==
    last.op = "query" =>
        \A k \in 1..Len(last.entries) :
            LET b == last.entries[k]
                seen == FileNodes(last.gbefore, b.items[b.pos][1])
            IN  seen = Range(b.before) \/ seen = Range(Ids(b.entities))

\* C19: when the server has shut down (the final save is done and the store
\* is closed) no batch is left whose callback had started and not returned.
C19_BatchNotCut == th.closed => Active = {}

\* C15: a batch is only delivered by the timer that the latest accepted
\* change started, that is, after a full debounce period without a change;
\* a timer superseded by a later change delivers nothing.
C15_QuietBeforeDelivery == \A b \in Delivered : ~b.superseded

\* the paths of the items of batch b
ItemPaths(b) == {b.items[k][1] : k \in 1..Len(b.items)}

\* C16: a delivered batch holds each path changed since the previous
\* delivery exactly once, labelled upsert if the file exists on disk at the
\* flush and delete otherwise.
C16_BatchNormalized ==
    \A b \in Delivered :
        /\ ItemPaths(b) = b.changed
        /\ Len(b.items) = Cardinality(b.changed)
        /\ \A k \in 1..Len(b.items) :
               b.items[k][2] = (IF b.items[k][1] \in b.disk THEN "upsert" ELSE "delete")

\* a batch with a path whose last recorded event was a write although the
\* file is gone at the flush
C16_Witness ==
    \E b \in Delivered : \E k \in 1..Len(b.items) :
        /\ b.recorded[k][2] = "upsert"
        /\ b.items[k][2] = "delete"
        /\ b.items[k][1] \notin b.disk

\* C17: a path whose handling raises does not keep the callback from
\* handling the remaining paths of the batch, and the graph is saved once,
\* after every path of the batch has been handled.
C17_BatchRunsToTheEnd ==
    \A b \in Delivered :
        /\ b.saves <= 1
        /\ Len(b.log) <= Len(b.items)
        /\ \A k \in 1..Len(b.log) : b.log[k].path = b.items[k][1]
        /\ b.saves = 1 => Len(b.log) = Len(b.items)

\* a saved batch whose first path raised and whose second path was handled
C17_Witness ==
    \E b \in Delivered :
        /\ b.saves = 1
        /\ Len(b.log) = 2
        /\ b.log[1].failed
        /\ ~b.log[2].failed

\* the records of the vector store that belong to file `path`
FileRecords(st, path) ==
    [id \in {x \in DOMAIN st : get_file_from_id(x) = path} |-> st[id]]

\* C18: an upsert for a file that parse_file gets nothing from (it cannot be
\* read) leaves the graph nodes and the vector-store records that were
\* recorded for the file where they are.
C18_UnparsedKept ==
    \A b \in Delivered : \A k \in 1..Len(b.log) :
        LET en == b.log[k] IN
        (en.kind = "upsert" /\ en.entities = <<>>) =>
            /\ Range(en.before) \subseteq Range(en.after)
            /\ \A id \in DOMAIN FileRecords(en.sbefore, en.path) :
                   /\ id \in DOMAIN en.safter
                   /\ en.safter[id] = en.sbefore[id]

\* the place of a phase in the order the indexing thread writes them
PhaseRank(p) ==
    CASE p = "starting" -> 0
      [] p = "parsing" -> 1
      [] p = "building_graph" -> 2
      [] p = "syncing_embeddings" -> 3
      [] p = "complete" -> 4

\* the phase get_index_status would report now
ReportedPhase == index_status(th.complete, th.error, phase)[2]

\* C20: while the indexing has not failed, get_index_status reports ready
\* once the indexing has signalled completion and indexing before, and it
\* never reports status indexing together with phase complete.
C20_StatusFollowsIndexing ==
    last.op = "status" =>
        /\ last.result[1] = "ready" => last.result[2] = "complete"
        /\ ~(last.result[1] = "indexing" /\ last.result[2] = "complete")

\* the part of C20 about the order of the phases: the reported phase never
\* moves backwards
C20_PhaseForward == [][PhaseRank(ReportedPhase') >= PhaseRank(ReportedPhase)]_vars

\* C21: entity ids are unique: when an entity is added under an id that is
\* already a node, that node is the same entity (same variant, name and
\* file), so an add never replaces another entity.
C21_IdsUnique ==
    last.op = "storage_add_entity" =>
        LET e == last.entries[1] IN
        HasNode(last.gbefore, e.id) =>
            /\ last.gbefore.attr[e.id].type = e.type
            /\ last.gbefore.attr[e.id].name = e.name
            /\ last.gbefore.attr[e.id].file_path = e.file_path

\* C22: the edges are a set of (from, to, type) triples: add_edge between
\* two nodes makes its triple present and leaves every edge that was there,
\* whatever its type.
C22_EdgesAreTriples ==
    last.op = "storage_add_edge" =>
        /\ (HasNode(last.gbefore, last.from_id) /\ HasNode(last.gbefore, last.to_id))
               => <<last.from_id, last.to_id, last.name>> \in Edges
        /\ last.gbefore.edges \subseteq Edges

\* C23: a graph query tool called with an id that is no node of the graph
\* returns a response with an error field.
C23_UnknownIdIsAnError ==
    (last.op = "tool" /\ ~HasNode(last.gbefore, last.to_id)) =>
        "error" \in DOMAIN last.result

\* C24: an include in angle brackets is external; an include in quotes is
\* resolved to the first known file among the file beside the including
\* file, include/<name> and src/<name>.
C24_IncludeResolution ==
    last.op = "include" =>
        LET inc == last.entries[1] IN
        IF inc.angle THEN last.result = <<>>
        ELSE last.result =
                 find_file(<<BesideContext(last.context_file, inc.name),
                             "include/" \o inc.name,
                             "src/" \o inc.name>>, builder.known_files)

\* the entries of scope `before` that map to another entity than id are
\* entries of scope `now`
KeptIn(before, now, id) ==
    \A n \in DOMAIN before :
        before[n] # id => (n \in DOMAIN now /\ now[n] = before[n])

\* C25: unregister(entity_id) leaves every global, qualified and file-local
\* entry that maps to another entity as it was.
C25_UnregisterFrame ==
    last.op = "unregister" =>
        LET before == last.entries[1]
            id == last.to_id
        IN  /\ KeptIn(before.global_scope, Symbols.global_scope, id)
            /\ KeptIn(before.qualified_names, Symbols.qualified_names, id)
            /\ \A f \in DOMAIN before.file_scopes :
                   /\ f \in DOMAIN Symbols.file_scopes
                   /\ KeptIn(before.file_scopes[f], Symbols.file_scopes[f], id)

\* the entities of a call that differ from the store as it was before the
\* call (no record, or a record with another content_hash), in call order
Selected(entities, before) ==
    SelectSeq(Embeddable(entities),
              LAMBDA e : e.id \notin DOMAIN before
                         \/ before[e.id].content_hash # e.content_hash)

\* the batch (from 0) of the i-th selected entity
BatchOf(i) == (i - 1) \div BATCH_SIZE

\* the positions of the selected entities in batches that failed / went through
FailedIn(sel, failing) == {i \in 1..Len(sel) : BatchOf(i) \in failing}

UpsertedIn(sel, failing) == {i \in 1..Len(sel) : BatchOf(i) \notin failing}

\* C26: sync_entities with failing batches: the entities of a failed batch
\* are in neither added nor updated and each has exactly one entry in
\* errors; the entities of every other batch are stored with their current
\* content_hash; added + updated is the number of entities upserted, added
\* counting those that had no record and updated those that had one; no
\* counter is negative.
C26_FailedBatchTakenBack ==
    last.op = "sync_entities" =>
        LET sel == Selected(last.entries, last.sbefore)
            r == last.result.result
            failed == FailedIn(sel, last.result.failing)
            done == UpsertedIn(sel, last.result.failing)
        IN  /\ r.added = Cardinality({i \in done : sel[i].id \notin DOMAIN last.sbefore})
            /\ r.updated = Cardinality({i \in done : sel[i].id \in DOMAIN last.sbefore})
            /\ r.added + r.updated = Cardinality(done)
            /\ Len(r.errors) = Cardinality(failed)
            /\ \A i \in failed :
                   Cardinality({j \in 1..Len(r.errors) : r.errors[j] = sel[i].id}) = 1
            /\ \A i \in done :
                   /\ sel[i].id \in DOMAIN store
                   /\ store[sel[i].id].content_hash = sel[i].content_hash
            /\ r.added >= 0 /\ r.updated >= 0 /\ r.deleted >= 0 /\ r.skipped >= 0

\* a sync_entities call whose first batch failed and whose second batch went
\* through, over entities of which some had a record and some had none
C26_Witness ==
    /\ last.op = "sync_entities"
    /\ last.result.failing = {0}
    /\ LET sel == Selected(last.entries, last.sbefore) IN
       /\ Len(sel) > BATCH_SIZE
       /\ \E i \in FailedIn(sel, {0}) : sel[i].id \in DOMAIN last.sbefore
       /\ \E i \in FailedIn(sel, {0}) : sel[i].id \notin DOMAIN last.sbefore
       /\ Len(last.result.result.errors) = BATCH_SIZE
       /\ last.result.result.added + last.result.result.updated = Len(sel) - BATCH_SIZE

\* C27: sync_file with failing batches returns a SyncResult in which the
\* entities of a failed batch are counted neither in added nor in updated
\* and each has one entry in errors, and the other batches are stored.
C27_SyncFileFailedBatchNotCounted ==
    last.op = "sync_file" =>
        LET sel == Selected(last.entries, last.sbefore)
            r == last.result.result
            failed == FailedIn(sel, last.result.failing)
            done == UpsertedIn(sel, last.result.failing)
        IN  /\ r.added + r.updated = Cardinality(done)
            /\ Len(r.errors) = Cardinality(failed)
            /\ \A i \in done : sel[i].id \in DOMAIN store

AllStored(entities) ==
    \A i \in 1..Len(entities) :
        is_embeddable(entities[i]) =>
            /\ entities[i].id \in DOMAIN store
            /\ store[entities[i].id].content_hash = entities[i].content_hash

\* one cycle whose failed batches left the records of their entities as
\* they were and left every one of them selected for the next cycle
FailedLeftForRetry ==
    LET sel == Selected(scan, store)
        again == Selected(scan, store')
    IN  \A i \in FailedIn(sel, last'.result.failing) :
            /\ sel[i].id \in DOMAIN store <=> sel[i].id \in DOMAIN store'
            /\ sel[i].id \in DOMAIN store => store'[sel[i].id] = store[sel[i].id]
            /\ \E j \in 1..Len(again) : again[j] = sel[i]

C28_FailedBatchRetriedDistinctIds ==
    /\ [][FailedLeftForRetry]_vars
    /\ (\A i, j \in 1..Len(scan) : scan[i].id = scan[j].id => i = j)
           => <>[]AllStored(scan)

\* C30: when a file was indexed while one of its imports was unresolved (its
\* IMPORTS edge goes to external:<import string>) and a later batch indexes
\* the file the import designates, through update_file and without the
\* importer being part of the batch, then after the batch the importer's
\* IMPORTS edge goes to the File node of the imported file and the
\* placeholder is gone.
C30_ImportRepointed ==
    last.op = "batch" =>
        \A e \in last.gbefore.edges : \A en \in {x \in Entries : x.kind = "upsert"} :
            (/\ e[3] = "imports"
             /\ last.gbefore.attr[e[2]].type = "external"
             /\ last.gbefore.attr[e[1]].file_path \notin BatchPaths
             /\ <<REPO, en.path>> \in Nodes
             /\ ImportResolve(last.gbefore.attr[e[2]].name,
                              LanguageOf(last.gbefore.attr[e[1]].file_path),
                              {en.path}, TRUE) = <<en.path>>)
            => /\ e[2] \notin Nodes
               /\ <<e[1], (<<REPO, en.path>>), "imports">> \in Edges

\* the file paths of the File nodes of the graph
GraphFiles == {Attr(id).file_path : id \in {n \in Nodes : Attr(n).type = "file"}}

\* C31: after any sequence of build_from_entities, update_file and
\* remove_file the known_files of the import resolver are the file paths of
\* the File nodes of the graph (so that an import of a file added by
\* update_file resolves to it).
C31_KnownFilesAreGraphFiles == builder.known_files = GraphFiles

\* C32: every IMPORTS edge goes from a File node to a File node or to a
\* placeholder external:<import string>, never to a Function, Class or
\* TypeDefinition node.
C32_ImportsTargets ==
    \A e \in Edges :
        e[3] = "imports" =>
            /\ Attr(e[1]).type = "file"
            /\ Attr(e[2]).type \in {"file", "external"}

\* the name of the class a class_name designates: the last component of the
\* dotted chain
InnermostClass(class_name) ==
    IF class_name = "Outer.Inner" THEN "Inner" ELSE class_name

\* C33: after a build or an update every Function of the entity list whose
\* class_name names a Class of the same file (for a nested class the dotted
\* chain Outer.Inner) has a CONTAINS edge from that Class node.
C33_MethodsContained ==
    last.op \in {"reindex", "update_file"} =>
        \A i, j \in 1..Len(last.entries) :
            LET f == last.entries[i]
                c == last.entries[j]
            IN  (/\ f.type = "function" /\ f.class_name # NoClass
                 /\ c.type = "class" /\ c.file_path = f.file_path
                 /\ c.name = InnermostClass(f.class_name))
                => <<c.id, f.id, "contains">> \in Edges

\* the same for the methods of classes that are not nested
C33_MethodsContainedTopLevel ==
    last.op \in {"reindex", "update_file"} =>
        \A i, j \in 1..Len(last.entries) :
            LET f == last.entries[i]
                c == last.entries[j]
            IN  (/\ f.type = "function" /\ f.class_name # NoClass
                 /\ c.type = "class" /\ c.file_path = f.file_path
                 /\ c.name = f.class_name)
                => <<c.id, f.id, "contains">> \in Edges

\* the values of a dict
Values(d) == {d[k] : k \in DOMAIN d}

\* the entity ids the symbol table holds in its global scope, its qualified
\* names and its file scopes
SymbolIds ==
    Values(builder.st.global_scope) \cup Values(builder.st.qualified_names)
    \cup UNION {Values(builder.st.file_scopes[f]) : f \in DOMAIN builder.st.file_scopes}

\* C38: after any sequence of build_from_entities, update_file, remove_file
\* and clear every entity id held in the symbol table is a node of the
\* graph (resolve never returns the id of a removed entity).
C38_SymbolsAreNodes == SymbolIds \subseteq Nodes

\* remove_file or update_file has just removed a function or a class from
\* the graph while the symbol table still holds other entities
C38_Witness ==
    /\ last.op \in {"remove_file", "update_file"}
    /\ \E id \in DOMAIN last.gbefore.attr :
           /\ last.gbefore.attr[id].type \in {"function", "class"}
           /\ id \notin Nodes
    /\ SymbolIds # {}

\* C39: after the reindex tool has run on one file path with full=false the
\* nodes of the graph whose file_path is that file are exactly the entities
\* parsed from the file's current content (an entity that was removed from
\* the file is no longer a node).
C39_ReindexedFileIsCurrent ==
    (last.op = "reindex" /\ last.context_file # NoPath) =>
        {id \in Nodes : Attr(id).file_path = last.context_file}
            = {last.entries[i].id : i \in 1..Len(last.entries)}

RECURSIVE Occurrences(_, _, _, _)
RECURSIVE OccurrencesEach(_, _, _, _)
\* The nodes of a call tree in the order the traversal produced them
\* (parent first, then its subtrees from left to right), each with its depth,
\* its flags, whether it was expanded (only an expanded node has a
\* file_path), whether its id is one of its ancestors (on_path) and whether
\* its id was expanded earlier in the traversal (seen_before).
Occurrences(tree, depth, path, seen) ==
    LET expanded == "file_path" \in DOMAIN tree
        me == [id |-> tree.id, depth |-> depth, expanded |-> expanded,
               truncated |-> tree.truncated, cycle |-> tree.cycle,
               on_path |-> tree.id \in path, seen_before |-> tree.id \in seen]
    IN  IF expanded
        THEN LET below == OccurrencesEach(tree.next, depth + 1, path \cup {tree.id},
                                          seen \cup {tree.id})
             IN  [list |-> <<me>> \o below.list, seen |-> below.seen]
        ELSE [list |-> <<me>>, seen |-> seen]

OccurrencesEach(trees, depth, path, seen) ==
    IF trees = <<>> THEN [list |-> <<>>, seen |-> seen]
    ELSE LET first == Occurrences(Head(trees), depth, path, seen)
             rest == OccurrencesEach(Tail(trees), depth, path, first.seen)
         IN  [list |-> first.list \o rest.list, seen |-> rest.seen]

\* the occurrences of the tree the last get_call_chain returned
ChainOccurrences == Occurrences(last.result, 0, {}, {}).list

\* C34: in the tree get_call_chain returns, every revisit of a node that
\* was already visited is a leaf with cycle = true and truncated = false,
\* and every node beyond the depth cap is a leaf with truncated = true.
C34_RevisitsAndCutsFlagged ==
    last.op = "get_call_chain" =>
        LET occ == ChainOccurrences IN
        \A i \in 1..Len(occ) :
            /\ occ[i].seen_before =>
                   ~occ[i].expanded /\ occ[i].cycle /\ ~occ[i].truncated
            /\ occ[i].depth > last.entries[1] =>
                   ~occ[i].expanded /\ occ[i].truncated

\* C35: get_call_chain returns (a finite tree) on every graph, with call
\* cycles and self-calls; no node is expanded twice, so at most as many
\* nodes are expanded as the graph has, and no node deeper than max_depth
\* is expanded.
C35_ExpandedOnceWithinDepth ==
    last.op = "get_call_chain" =>
        LET occ == ChainOccurrences IN
        /\ \A i \in 1..Len(occ) :
               occ[i].expanded =>
                   /\ occ[i].depth <= last.entries[1]
                   /\ ~occ[i].seen_before
                   /\ \A j \in 1..Len(occ) :
                          (occ[j].expanded /\ occ[j].id = occ[i].id) => j = i
        /\ Cardinality({i \in 1..Len(occ) : occ[i].expanded}) <= Cardinality(Nodes)

\* a call chain over a graph with a self-call and a cycle through two
\* functions, in which one node was met again and another was cut by the cap
C35_Witness ==
    /\ last.op = "get_call_chain"
    /\ \E x \in ChainIds : <<x, x, "calls">> \in Edges
    /\ \E x, y \in ChainIds :
           x # y /\ <<x, y, "calls">> \in Edges /\ <<y, x, "calls">> \in Edges
    /\ LET occ == ChainOccurrences IN
       /\ \E i \in 1..Len(occ) : occ[i].seen_before /\ ~occ[i].expanded
       /\ \E i \in 1..Len(occ) : occ[i].depth > last.entries[1]
       /\ \E i \in 1..Len(occ) : occ[i].expanded /\ occ[i].depth > 0

\* C40: a node has cycle = true only if it is one of its own ancestors on
\* the path from the root; a node met again on another branch, of which it
\* is no ancestor, is not flagged and is expanded like any other node
\* within the depth cap.
C40_CycleOnlyOnPath ==
    last.op = "get_call_chain" =>
        LET occ == ChainOccurrences IN
        \A i \in 1..Len(occ) :
            /\ occ[i].cycle => occ[i].on_path
            /\ (occ[i].seen_before /\ ~occ[i].on_path
                /\ occ[i].depth <= last.entries[1])
                   => ~occ[i].cycle /\ occ[i].expanded

\* C37: after a sync_entities or sync_file call that returned no errors the
\* store holds, for every embeddable entity of the input list, a record
\* with the entity's id and content_hash, whatever the list (two entities
\* of the list may have the same id).
C37_SyncedListIsStored ==
    (last.op \in {"sync_entities", "sync_file"} /\ last.result.result.errors = <<>>)
        => AllStored(last.entries)

\* the same, for lists in which no two entities share an id
C37_SyncedListIsStoredDistinctIds ==
    (/\ last.op \in {"sync_entities", "sync_file"}
     /\ last.result.result.errors = <<>>
     /\ \A i, j \in 1..Len(last.entries) :
            last.entries[i].id = last.entries[j].id => i = j)
        => AllStored(last.entries)

\* the paths of the changes the handler holds
PendingPaths == {pending[i][1] : i \in 1..Len(pending)}

\* a step in which a path leaves the pending changes hands it to the
\* callback: the step appends one batch, the batch holds exactly the paths
\* that were pending, and nothing stays pending
HandedOver ==
    /\ (PendingPaths \ PendingPaths') # {} =>
           Len(th'.batches) = Len(th.batches) + 1
    /\ Len(th'.batches) # Len(th.batches) =>
           /\ Len(th'.batches) = Len(th.batches) + 1
           /\ SubSeq(th'.batches, 1, Len(th.batches)) = th.batches
           /\ ItemPaths(th'.batches[Len(th'.batches)]) = PendingPaths
           /\ Len(th'.batches[Len(th'.batches)].items) = Len(pending)
           /\ pending' = <<>>

\* C36: when events stop arriving and the watcher keeps running, every
\* change the handler accepted is delivered to the callback in some batch:
\* a path leaves the pending changes only into a batch, into one batch
\* only, and in the end no event is queued and nothing is pending.
C36_AcceptedIsDelivered ==
    /\ [][HandedOver]_vars
    /\ \A p \in Movable : (p \in PendingPaths) ~> (p \notin PendingPaths)
    /\ <>[](pending = <<>> /\ th.events = <<>>)

\* everything has been delivered, by a timer that ran while a later one was
\* waiting; the later timer found nothing to deliver
C36_Witness ==
    /\ pending = <<>>
    /\ th.events = <<>>
    /\ th.batches # <<>>
    /\ \E t \in DOMAIN th.timers :
           /\ th.timers[t] = "done"
           /\ \A i \in 1..Len(th.batches) : th.batches[i].timer # t

====
